---------------------------- MODULE Spec2Model ----------------------------
(***************************************************************************)
(* Model of the finite-volume spatial discretization of FVENS              *)
(* (src/src/aspatial.cpp and the older copies in src/unnamed/part_002):    *)
(* FlowFV::compute_residual, FlowFV::compute_jacobian,                     *)
(* FlowFV::compute_boundary_state, the ghost-cell centres, the FlowFV      *)
(* constructor, the main program that reads the control file               *)
(* (src/unnamed/part_001), the parser parse_flow_controlfile and the       *)
(* staging of the pseudo-time solves                                       *)
(* (src/benchmarking/threads_async_tests.cpp).                             *)
(*                                                                         *)
(* Arithmetic.  The program computes in double precision; the model        *)
(* computes in exact integers.  Face normals are unit vectors stored in    *)
(* fifths (the vector (4/5, 3/5) is stored as <<4, 3>>), so that the       *)
(* 3-4-5 triangles of the meshes below have exact normals; every quantity  *)
(* that is linear in the normal is therefore five times its real value.    *)
(* Cell states are chosen so that every division the code performs is      *)
(* exact in the model.                                                     *)
(***************************************************************************)
EXTENDS Integers, Sequences, FiniteSets, TLC

VARIABLES
    m,             \* the mesh borrowed by the spatial discretization
    bc,            \* boundary markers and wall set points of the FlowFV object
    u,             \* cell states, u(iel, ivar)
    residual,      \* the residual array passed to compute_residual
    resid0,        \* contents of residual on entry to compute_residual
    integ,         \* per-cell wave integral (local of compute_residual)
    uleft,         \* left face states  (local of compute_residual)
    uright,        \* right face states (local of compute_residual)
    dtm,           \* time-step array passed to compute_residual
    gettimesteps,  \* argument of compute_residual
    pcRes,         \* position inside compute_residual
    iter,          \* per face: position of its iteration of the flux loop
    A,             \* the linear operator passed to compute_jacobian
    D0,            \* diagonal blocks of A on entry to compute_jacobian
    uface,         \* per boundary face: the local ghost state of compute_jacobian
    calls,         \* the calls compute_jacobian has made on A
    pcJac,         \* position inside compute_jacobian
    jiter,         \* per face: position of its iteration of the Jacobian loops
    written,       \* per boundary face: the components of bs written so far
    pcBS,          \* position inside compute_boundary_states
    opts,          \* the options main read from the control file
    prob,          \* the members the FlowFV constructor sets
    pcMain,        \* position inside main
    nres,          \* residuals computed by the solver so far
    njac,          \* Jacobians assembled by the solver so far
    ub,            \* an unset member pointer has been used
    fnIn,          \* the arguments of the function under study
    fnOut,         \* what the function has returned so far
    pcFn,          \* position of the caller of the function under study
    tconf,         \* usestarter and the SteadySolverConfig of each stage
    stage,         \* what the pseudo-time driver is doing
    step,          \* the pseudo-time step of the solve that is running
    curCFL,        \* the CFL number of the last pseudo-time step
    usol,          \* the vector u of test_speedup_sweeps
    ut,            \* the vector ut of run_sweeps
    initres,       \* residual norm at the start of the solve that is running
    ret,           \* per stage: what its last solve returned
    nruns,         \* calls of run_sweeps still to be made
    args,          \* the command line and the control file it names
    entry,         \* the routine that reads the control file
    pcStart,       \* position of the start-up
    meshfile,      \* the mesh path read from the control file
    meshReads,     \* the paths the mesh reader has been called with
    solved,        \* the solve has finished
    exitStatus     \* the status the process ended with

resVars == <<m, bc, u, residual, resid0, integ, uleft, uright, dtm, gettimesteps,
             pcRes, iter>>

jacVars == <<A, D0, uface, calls, pcJac, jiter>>

bsVars == <<written, pcBS>>

ctorVars == <<opts, prob, pcMain, nres, njac, ub>>

fnVars == <<fnIn, fnOut, pcFn>>

drvVars == <<tconf, stage, step, curCFL, usol, ut, initres, ret, nruns>>

startVars == <<args, entry, pcStart, meshfile, meshReads, solved, exitStatus>>

\* the variables of the operations modelled further below
restVars == <<fnVars, drvVars, startVars>>

vars == <<resVars, jacVars, bsVars, ctorVars, restVars>>

\* the variables of the operations that are not running
JacIdle ==
    /\ A = <<>> /\ D0 = <<>> /\ uface = <<>> /\ calls = {}
    /\ pcJac = "idle" /\ jiter = <<>>

BSIdle == written = <<>> /\ pcBS = "idle"

CtorIdle ==
    /\ opts = <<>> /\ prob = <<>> /\ pcMain = "idle"
    /\ nres = 0 /\ njac = 0 /\ ub = FALSE

FnIdle == fnIn = <<>> /\ fnOut = <<>> /\ pcFn = "idle"

DrvIdle ==
    /\ tconf = <<>> /\ stage = "Idle" /\ step = 0 /\ curCFL = <<>>
    /\ usol = 0 /\ ut = 0 /\ initres = 0 /\ ret = <<>> /\ nruns = 0

StartIdle ==
    /\ args = <<>> /\ entry = "none" /\ pcStart = "idle" /\ meshfile = ""
    /\ meshReads = <<>> /\ solved = FALSE /\ exitStatus = 0

RestIdle == FnIdle /\ DrvIdle /\ StartIdle

----------------------------------------------------------------------------
(* Bounds of the model *)

\* number of OpenMP threads that execute a parallel loop
NThreads == 2
\* largest multiplier of the pattern left in the residual array by the caller
MaxPrior == 1

----------------------------------------------------------------------------
(* Program constants *)

\* number of conserved variables of the flow problem
NVARS == 4

Abs(x) == IF x < 0 THEN -x ELSE x

\* integer square root (floor)
ISqrt(x) == CHOOSE r \in 0..(x+1) : r*r <= x /\ (r+1)*(r+1) > x

Vars == 1..NVARS

ZeroVec == [i \in Vars |-> 0]

RECURSIVE SumOver(_, _)
\* sum of f[x] over the finite set S
SumOver(f, S) ==
    IF S = {} THEN 0
    ELSE LET x == CHOOSE y \in S : TRUE IN f[x] + SumOver(f, S \ {x})

----------------------------------------------------------------------------
(* Meshes.  Faces are numbered from 0, boundary faces first; intfac holds  *)
(* left and right cell of each face (the right cell of boundary face f is  *)
(* the ghost slot nelem+f); gallfa holds normal (in fifths), length and    *)
(* boundary marker.                                                        *)

\* Two 3-4-5 triangles that tile the rectangle [0,3]x[0,4].
MeshTri2 ==
    [ nelem  |-> 2, nbface |-> 4, naface |-> 5,
      intfac |-> << <<0, 2>>, <<0, 3>>, <<1, 4>>, <<1, 5>>, <<0, 1>> >>,
      gallfa |-> << <<0, -5, 3, 2>>,
                    <<-5, 0, 4, 4>>,
                    <<5, 0, 4, 4>>,
                    <<0, 5, 3, 2>>,
                    <<4, 3, 5, 0>> >>,
      area   |-> <<6, 6>> ]

gnelem(mesh) == mesh.nelem
gnbface(mesh) == mesh.nbface
gnaface(mesh) == mesh.naface
gintfac(mesh, ied, k) == mesh.intfac[ied + 1][k + 1]
ggallfa(mesh, ied, k) == mesh.gallfa[ied + 1][k + 1]
garea(mesh, iel) == mesh.area[iel + 1]

Cells(mesh) == 0..(gnelem(mesh) - 1)
BFaces(mesh) == 0..(gnbface(mesh) - 1)
IFaces(mesh) == gnbface(mesh)..(gnaface(mesh) - 1)
Faces(mesh) == 0..(gnaface(mesh) - 1)

Normal(mesh, ied) == <<ggallfa(mesh, ied, 0), ggallfa(mesh, ied, 1)>>

\* Three 3-4-5 triangles: MeshTri2 and the triangle (3,0),(6,0),(3,4).
MeshTri3 ==
    [ nelem  |-> 3, nbface |-> 5, naface |-> 7,
      intfac |-> << <<0, 3>>, <<0, 4>>, <<1, 5>>, <<2, 6>>, <<2, 7>>,
                    <<0, 1>>, <<1, 2>> >>,
      gallfa |-> << <<0, -5, 3, 2>>,
                    <<-5, 0, 4, 4>>,
                    <<0, 5, 3, 2>>,
                    <<0, -5, 3, 2>>,
                    <<4, 3, 5, 4>>,
                    <<4, 3, 5, 0>>,
                    <<5, 0, 4, 0>> >>,
      area   |-> <<6, 6, 6>> ]

----------------------------------------------------------------------------
(* Physics (class IdealGasPhysics, not part of the sources at hand).       *)
(* Velocities are stored in halves, so energies, pressures and             *)
(* temperatures are four times their nondimensional values; the factors    *)
(* gamma and gamma-1 are absorbed in the units of pressure and             *)
(* temperature.                                                            *)

\* kinetic energy (rho |v|^2)/2 of a conserved state
KineticEnergy(uc) == (uc[2] * uc[2] + uc[3] * uc[3]) \div (2 * uc[1])

\* pressure over (gamma-1)
getPressureFromConserved(uc) == uc[4] - KineticEnergy(uc)

getTemperatureFromConserved(uc) == getPressureFromConserved(uc) \div uc[1]

\* floor of the speed of sound
getSoundSpeedFromConserved(uc) == ISqrt(getPressureFromConserved(uc) \div uc[1])

\* total energy of the primitive state <<rho, vx, vy, T>>
getEnergyFromPrimitive2(prim) ==
    prim[1] * prim[4]
      + (prim[1] * (prim[2] * prim[2] + prim[3] * prim[3])) \div 2

\* normal velocity (in fifths) of a conserved state
NormalVelocity(uc, n) == (uc[2] * n[1] + uc[3] * n[2]) \div uc[1]

----------------------------------------------------------------------------
(* Numerical flux (class InviscidFlux and its variants, not part of the    *)
(* sources at hand): a local Lax-Friedrichs flux, consistent and           *)
(* conservative.  The value is twice the flux, in fifths.                  *)

EulerFlux(uc, n) ==
    LET vn == NormalVelocity(uc, n)
        p  == getPressureFromConserved(uc)
    IN  << uc[1] * vn,
           uc[2] * vn + p * n[1],
           uc[3] * vn + p * n[2],
           (uc[4] + p) * vn >>

MaxWaveSpeed(ul, ur, n) ==
    LET sl == Abs(NormalVelocity(ul, n)) + 5 * getSoundSpeedFromConserved(ul)
        sr == Abs(NormalVelocity(ur, n)) + 5 * getSoundSpeedFromConserved(ur)
    IN  IF sl > sr THEN sl ELSE sr

get_flux(ul, ur, n) ==
    [i \in Vars |-> EulerFlux(ul, n)[i] + EulerFlux(ur, n)[i]
                      - MaxWaveSpeed(ul, ur, n) * (ur[i] - ul[i])]

----------------------------------------------------------------------------
(* Boundary closure: FlowFV::compute_boundary_state.  The function is a    *)
(* sequence of independent if statements, one per boundary kind; a marker  *)
(* that matches none of them leaves bs as it was.                          *)

\* markers of the Euler test cases (tests/inv-2dcyl): the wall markers that
\* the control file does not set keep the parser's default -1
EulerBC ==
    [ isothermal_wall_id |-> -1, isothermalbaric_wall_id |-> -1,
      adiabatic_wall_id |-> -1, slip_wall_id |-> 2, inflow_outflow_id |-> 4,
      isothermal_wall_temperature |-> 0 ]

\* free-stream state set by the constructor for angle of attack 0
uinf == <<1, 2, 0, 12>>

SlipWallState_Once(ins, n) ==
    LET vni == NormalVelocity(ins, n)
    IN  << ins[1],
           ins[2] - (vni * n[1] * ins[1]) \div 25,
           ins[3] - (vni * n[2] * ins[1]) \div 25,
           ins[4] >>

SlipWallState(ins, n) ==
    LET vni == NormalVelocity(ins, n)
    IN  << ins[1],
           ins[2] - (2 * vni * n[1] * ins[1]) \div 25,
           ins[3] - (2 * vni * n[2] * ins[1]) \div 25,
           ins[4] >>

IsothermalWallState(ins, Twall) ==
    << ins[1], -ins[2], -ins[3],
       getEnergyFromPrimitive2(<<ins[1], (-ins[2]) \div ins[1],
                                 (-ins[3]) \div ins[1], Twall>>) >>

AdiabaticWallState(ins) ==
    << ins[1], -ins[2], -ins[3],
       getEnergyFromPrimitive2(<<ins[1], (-ins[2]) \div ins[1],
                                 (-ins[3]) \div ins[1],
                                 getTemperatureFromConserved(ins)>>) >>

CharacteristicState(ins, n) ==
    LET vni == NormalVelocity(ins, n)
    IN  IF vni <= 0 THEN uinf
        ELSE IF vni <= 5 * getSoundSpeedFromConserved(ins)
             THEN << ins[1], ins[2], ins[3],
                     getPressureFromConserved(uinf) + KineticEnergy(ins) >>
             ELSE ins

compute_boundary_state_MachSwitch(cfg, marker, n, ins, bs) ==
    IF marker = cfg.inflow_outflow_id
    THEN IF NormalVelocity(ins, n) < 5 * getSoundSpeedFromConserved(ins)
         THEN uinf ELSE ins
    ELSE IF marker = cfg.slip_wall_id THEN SlipWallState(ins, n) ELSE bs

compute_boundary_state(cfg, marker, n, ins, bs) ==
    LET b1 == IF marker = cfg.slip_wall_id THEN SlipWallState(ins, n) ELSE bs
        b2 == IF marker = cfg.isothermal_wall_id
              THEN IsothermalWallState(ins, cfg.isothermal_wall_temperature)
              ELSE b1
        b3 == IF marker = cfg.adiabatic_wall_id
              THEN AdiabaticWallState(ins) ELSE b2
        b4 == IF marker = cfg.inflow_outflow_id THEN uinf ELSE b3
        b5 == IF marker = -1 THEN CharacteristicState(ins, n) ELSE b4
    IN  b5

\* FlowFV::compute_boundary_states: every boundary face, from ins to bs
compute_boundary_states(mesh, cfg, ins, bs) ==
    [f \in Faces(mesh) |->
        IF f \in BFaces(mesh)
        THEN compute_boundary_state(cfg, ggallfa(mesh, f, 3), Normal(mesh, f),
                                    ins[f], bs[f])
        ELSE bs[f]]


----------------------------------------------------------------------------
(* FlowFV::compute_residual.                                               *)

\* the states a cell can hold in the model: the free stream and a denser,
\* faster state
StateSet == { uinf, <<2, 4, 8, 30>> }

\* what an array that was resized but not yet written may hold
Garbage == StateSet

\* contents of the residual array on entry
Prior(mesh, k) == [iel \in Cells(mesh) |-> [i \in Vars |-> k * (iel + i)]]

\* positions of one iteration of the flux loop: 0 not started, 1..NVARS the
\* atomic updates of the left cell's residual, NVARS+1..2*NVARS those of the
\* right cell, then the two atomic updates of the wave integral
AtIntegLeft == 2 * NVARS + 1
AtIntegRight == 2 * NVARS + 2
IterDone == 2 * NVARS + 3

Running(it) == { f \in DOMAIN it : it[f] > 0 /\ it[f] < IterDone }

\* the update written as a plain store of the contribution
AtomicAdd_Store(x, v) == v
\* the right cell's update with the sign of the left cell's
AtomicSub_Plus(x, v) == x + v

\* #pragma omp atomic  x += v   and   x -= v
AtomicAdd(x, v) == x + v
AtomicSub(x, v) == x - v

\* the right side of every face taken for a real cell
IsRealCell_Always(mesh, relem) == TRUE

\* relem < m->gnelem(): the right cell is a real cell, not a ghost slot
IsRealCell(mesh, relem) == relem < gnelem(mesh)

\* fluxes[] of face ied after "fluxes[ivar] *= len"
FaceFlux(mesh, ul, ur, ied) ==
    LET fl == get_flux(ul[ied], ur[ied], Normal(mesh, ied))
    IN  [i \in Vars |-> fl[i] * ggallfa(mesh, ied, 2)]

\* (fabs(vni)+ci)*len and (fabs(vnj)+cj)*len
WaveIntegral(mesh, uf, ied) ==
    (Abs(NormalVelocity(uf[ied], Normal(mesh, ied)))
       + 5 * getSoundSpeedFromConserved(uf[ied])) * ggallfa(mesh, ied, 2)

ResInit ==
    /\ m = MeshTri2
    /\ bc = EulerBC
    /\ u \in [Cells(MeshTri2) -> StateSet]
    /\ \E k \in 0..MaxPrior : resid0 = Prior(MeshTri2, k)
    /\ residual = resid0
    /\ gettimesteps \in BOOLEAN
    /\ dtm = IF gettimesteps THEN [iel \in Cells(MeshTri2) |-> <<0, 1>>] ELSE <<>>
    /\ integ = <<>>
    /\ uleft = <<>>
    /\ uright = <<>>
    /\ pcRes = "entry"
    /\ iter = [f \in Faces(MeshTri2) |-> 0]
    /\ JacIdle /\ BSIdle /\ CtorIdle /\ RestIdle

\* lines 475-499: the local arrays are allocated (their contents are
\* indeterminate), integ is zeroed and the cell state is copied to the left
\* side of every boundary face
ZeroIntegCopyBoundaryLeft ==
    /\ pcRes = "entry"
    /\ integ' = [iel \in Cells(m) |-> 0]
    /\ \E g \in Garbage :
         /\ uleft' = [f \in Faces(m) |->
                        IF f \in BFaces(m) THEN u[gintfac(m, f, 0)] ELSE g]
         /\ uright' = [f \in Faces(m) |-> g]
    /\ pcRes' = "facestates"
    /\ UNCHANGED <<m, bc, u, residual, resid0, dtm, gettimesteps, iter>>
    /\ UNCHANGED <<jacVars, bsVars, ctorVars, restVars>>

\* lines 549-565: first order, face states are the cell states
FirstOrderFaceStates ==
    /\ pcRes = "facestates"
    /\ uleft' = [f \in Faces(m) |->
                   IF f \in IFaces(m) THEN u[gintfac(m, f, 0)] ELSE uleft[f]]
    /\ uright' = [f \in Faces(m) |->
                    IF f \in IFaces(m) THEN u[gintfac(m, f, 1)] ELSE uright[f]]
    /\ pcRes' = "ghoststates"
    /\ UNCHANGED <<m, bc, u, residual, resid0, integ, dtm, gettimesteps, iter>>
    /\ UNCHANGED <<jacVars, bsVars, ctorVars, restVars>>

\* line 568: compute_boundary_states(uleft, uright)
GhostStates ==
    /\ pcRes = "ghoststates"
    /\ uright' = compute_boundary_states(m, bc, uleft, uright)
    /\ pcRes' = "fluxloop"
    /\ UNCHANGED <<m, bc, u, residual, resid0, integ, uleft, dtm, gettimesteps,
                   iter>>
    /\ UNCHANGED <<jacVars, bsVars, ctorVars, restVars>>

\* a thread of the team takes iteration ied of the flux loop (lines 581-607)
StartFace(ied) ==
    /\ pcRes = "fluxloop"
    /\ iter[ied] = 0
    /\ Cardinality(Running(iter)) < NThreads
    /\ iter' = [iter EXCEPT ![ied] = 1]
    /\ UNCHANGED <<m, bc, u, residual, resid0, integ, uleft, uright, dtm,
                   gettimesteps, pcRes>>
    /\ UNCHANGED <<jacVars, bsVars, ctorVars, restVars>>

\* lines 609-612: residual(lelem,ivar) += fluxes[ivar], one atomic update
ResidualLeft(ied) ==
    /\ pcRes = "fluxloop"
    /\ iter[ied] \in 1..NVARS
    /\ LET ivar  == iter[ied]
           lelem == gintfac(m, ied, 0)
           relem == gintfac(m, ied, 1)
       IN  /\ residual' = [residual EXCEPT ![lelem][ivar] =
                   AtomicAdd(@, FaceFlux(m, uleft, uright, ied)[ivar])]
           /\ iter' = [iter EXCEPT ![ied] =
                   IF ivar < NVARS THEN ivar + 1
                   ELSE IF IsRealCell(m, relem) THEN NVARS + 1
                   ELSE AtIntegLeft]
    /\ UNCHANGED <<m, bc, u, resid0, integ, uleft, uright, dtm, gettimesteps,
                   pcRes>>
    /\ UNCHANGED <<jacVars, bsVars, ctorVars, restVars>>

\* lines 613-618: residual(relem,ivar) -= fluxes[ivar], one atomic update
ResidualRight(ied) ==
    /\ pcRes = "fluxloop"
    /\ iter[ied] \in (NVARS + 1)..(2 * NVARS)
    /\ LET ivar  == iter[ied] - NVARS
           relem == gintfac(m, ied, 1)
       IN  /\ residual' = [residual EXCEPT ![relem][ivar] =
                   AtomicSub(@, FaceFlux(m, uleft, uright, ied)[ivar])]
           /\ iter' = [iter EXCEPT ![ied] = @ + 1]
    /\ UNCHANGED <<m, bc, u, resid0, integ, uleft, uright, dtm, gettimesteps,
                   pcRes>>
    /\ UNCHANGED <<jacVars, bsVars, ctorVars, restVars>>

\* lines 619-620: integ(lelem) += (fabs(vni)+ci)*len
IntegLeft(ied) ==
    /\ pcRes = "fluxloop"
    /\ iter[ied] = AtIntegLeft
    /\ integ' = [integ EXCEPT ![gintfac(m, ied, 0)] =
                   AtomicAdd(@, WaveIntegral(m, uleft, ied))]
    /\ iter' = [iter EXCEPT ![ied] =
                   IF IsRealCell(m, gintfac(m, ied, 1)) THEN AtIntegRight
                   ELSE IterDone]
    /\ UNCHANGED <<m, bc, u, residual, resid0, uleft, uright, dtm, gettimesteps,
                   pcRes>>
    /\ UNCHANGED <<jacVars, bsVars, ctorVars, restVars>>

\* lines 621-624: integ(relem) += (fabs(vnj)+cj)*len
IntegRight(ied) ==
    /\ pcRes = "fluxloop"
    /\ iter[ied] = AtIntegRight
    /\ integ' = [integ EXCEPT ![gintfac(m, ied, 1)] =
                   AtomicAdd(@, WaveIntegral(m, uright, ied))]
    /\ iter' = [iter EXCEPT ![ied] = IterDone]
    /\ UNCHANGED <<m, bc, u, residual, resid0, uleft, uright, dtm, gettimesteps,
                   pcRes>>
    /\ UNCHANGED <<jacVars, bsVars, ctorVars, restVars>>

\* the time steps computed whether they were asked for or not
TimeStepsRequested_Always(flag) == TRUE

\* line 628: "if(gettimesteps)"
TimeStepsRequested(flag) == flag

\* lines 627-634: after the barrier, dtm(iel) = area/integ(iel) when time
\* steps are requested; the quotient is kept as <<numerator, denominator>>
TimeSteps ==
    /\ pcRes = "fluxloop"
    /\ \A f \in Faces(m) : iter[f] = IterDone
    /\ dtm' = IF TimeStepsRequested(gettimesteps)
              THEN [iel \in Cells(m) |-> <<garea(m, iel), integ[iel]>>]
              ELSE dtm
    /\ pcRes' = "done"
    /\ UNCHANGED <<m, bc, u, residual, resid0, integ, uleft, uright,
                   gettimesteps, iter>>
    /\ UNCHANGED <<jacVars, bsVars, ctorVars, restVars>>

ResNext ==
    \/ ZeroIntegCopyBoundaryLeft
    \/ FirstOrderFaceStates
    \/ GhostStates
    \/ \E ied \in Faces(m) : StartFace(ied)
    \/ \E ied \in Faces(m) : ResidualLeft(ied)
    \/ \E ied \in Faces(m) : ResidualRight(ied)
    \/ \E ied \in Faces(m) : IntegLeft(ied)
    \/ \E ied \in Faces(m) : IntegRight(ied)
    \/ TimeSteps

----------------------------------------------------------------------------
(* FlowFV::compute_jacobian(u, A), the LinearOperator variant *)

Block == [Vars -> [Vars -> Int]]
ZeroBlock == [i \in Vars |-> [j \in Vars |-> 0]]
BlockAdd(a, b) == [i \in Vars |-> [j \in Vars |-> a[i][j] + b[i][j]]]
BlockScale(c, a) == [i \in Vars |-> [j \in Vars |-> c * a[i][j]]]
ScalarBlock(c) == [i \in Vars |-> [j \in Vars |-> IF i = j THEN c ELSE 0]]

\* Jacobian of the normal flux with respect to the state, up to the positive
\* factors dropped everywhere in this model
FluxJacobian(uc, n) ==
    [i \in Vars |-> [j \in Vars |->
        (IF i = j THEN NormalVelocity(uc, n) ELSE 0)
        + (IF j \in 2..3 THEN n[j - 1] * (uc[i] \div uc[1]) ELSE 0)]]

\* jflux->get_jacobian(ul, ur, n, dfdl, dfdr): the block Jacobians of the
\* flux with respect to the left and to the right state
get_jacobian(ul, ur, n) ==
    LET lam == MaxWaveSpeed(ul, ur, n)
    IN  [ left  |-> BlockAdd(FluxJacobian(ul, n), ScalarBlock(lam)),
          right |-> BlockAdd(FluxJacobian(ur, n), ScalarBlock(-lam)) ]

\* A->updateDiagBlock(row, block, NVARS): the block is added to the diagonal
\* block rooted at cell row/NVARS, as one atomic accumulation
updateDiagBlock(op, row, block) ==
    [op EXCEPT !.D[row \div NVARS] = BlockAdd(@, block)]

\* the storage slot an off-diagonal block goes to: addressed by (tag, interior
\* face index) in the "d" form, by (block row, block column) otherwise
Slot(op, row, col, arg1, arg2) ==
    IF op.type = "d" THEN <<arg1, arg2>> ELSE <<row \div NVARS, col \div NVARS>>

\* A->submitBlock(row, col, block, arg1, arg2): the block replaces the
\* contents of its slot
submitBlock(op, row, col, block, arg1, arg2) ==
    [op EXCEPT !.off = (Slot(op, row, col, arg1, arg2) :> block) @@ @]

\* "a_int intface = iface-m->gnbface()"
IntFace_NoOffset(mesh, iface) == iface
IntFace(mesh, iface) == iface - gnbface(mesh)

\* "lelem*NVARS", the row passed with a block of cell lelem
BlockRow_NoStride(iel) == iel
BlockRow(iel) == iel * NVARS

\* the row of the second diagonal update of an interior face, "relem*NVARS"
RightDiagRow_Left(lelem, relem) == BlockRow(lelem)
RightDiagRow(lelem, relem) == BlockRow(relem)

\* "compute_boundary_state(iface, &u(lelem,0), uface)" on the local uface,
\* whose contents before the call are indeterminate
BoundaryGhost_Interior(cfg, mesh, iface, ins, g) == ins
BoundaryGhost(cfg, mesh, iface, ins, g) ==
    compute_boundary_state(cfg, ggallfa(mesh, iface, 3), Normal(mesh, iface),
                           ins, g)

\* left (and right) of a boundary face after get_jacobian
BoundaryJacobian(mesh, uc, ug, iface) ==
    get_jacobian(uc[gintfac(mesh, iface, 0)], ug[iface], Normal(mesh, iface))

\* "left = -len*left"
BoundaryDiagBlock(mesh, uc, ug, iface) ==
    BlockScale(-ggallfa(mesh, iface, 2), BoundaryJacobian(mesh, uc, ug, iface).left)

\* L and U of an interior face after "L *= len; U *= len"
InteriorJacobian(mesh, uc, iface) ==
    LET jac == get_jacobian(uc[gintfac(mesh, iface, 0)],
                            uc[gintfac(mesh, iface, 1)], Normal(mesh, iface))
        len == ggallfa(mesh, iface, 2)
    IN  [ L |-> BlockScale(len, jac.left), U |-> BlockScale(len, jac.right) ]

\* the iterations of the Jacobian loops that a thread is executing
JRunning(it) == { f \in DOMAIN it : it[f] \notin {"todo", "done"} }

Call(iface, pos, name, row, col, block, arg1, arg2) ==
    [ face |-> iface, pos |-> pos, op |-> name, row |-> row, col |-> col,
      block |-> block, arg1 |-> arg1, arg2 |-> arg2 ]

JacMeshes == { MeshTri2, MeshTri3 }
OperatorTypes == { "d", "c" }

JacInit ==
    /\ m \in JacMeshes
    /\ bc = EulerBC
    /\ u \in [Cells(m) -> StateSet]
    /\ \E k \in 0..MaxPrior :
          D0 = [iel \in Cells(m) |-> ScalarBlock(k * garea(m, iel))]
    /\ \E t \in OperatorTypes : A = [ type |-> t, D |-> D0, off |-> <<>> ]
    /\ uface = <<>>
    /\ calls = {}
    /\ pcJac = "bfaces"
    /\ jiter = [f \in Faces(m) |-> "todo"]
    /\ residual = <<>> /\ resid0 = <<>> /\ integ = <<>> /\ uleft = <<>>
    /\ uright = <<>> /\ dtm = <<>> /\ gettimesteps = FALSE
    /\ pcRes = "idle" /\ iter = <<>>
    /\ BSIdle /\ CtorIdle /\ RestIdle

\* a thread takes iteration iface of the boundary loop: lines 758-768
StartBoundaryFace(iface) ==
    /\ pcJac = "bfaces"
    /\ iface \in BFaces(m)
    /\ jiter[iface] = "todo"
    /\ Cardinality(JRunning(jiter)) < NThreads
    /\ \E g \in Garbage :
          uface' = (iface :> BoundaryGhost(bc, m, iface,
                                          u[gintfac(m, iface, 0)], g)) @@ uface
    /\ jiter' = [jiter EXCEPT ![iface] = "diag"]
    /\ UNCHANGED <<A, D0, calls, pcJac>>
    /\ UNCHANGED <<resVars, bsVars, ctorVars, restVars>>

\* the block passed on to the diagonal as it was submitted
Negated_Not(block) == block

\* line 802: "L *= -1.0; U *= -1.0"
Negated(block) == BlockScale(-1, block)

\* lines 771-772: left = -len*left; A->updateDiagBlock(lelem*NVARS, left)
BoundaryUpdateDiag(iface) ==
    /\ pcJac = "bfaces"
    /\ iface \in BFaces(m)
    /\ jiter[iface] = "diag"
    /\ LET row  == BlockRow(gintfac(m, iface, 0))
           left == BoundaryDiagBlock(m, u, uface, iface)
       IN  /\ A' = updateDiagBlock(A, row, left)
           /\ calls' = calls \cup
                 {Call(iface, "diag", "updateDiagBlock", row, row, left, NVARS, 0)}
    /\ jiter' = [jiter EXCEPT ![iface] = "done"]
    /\ UNCHANGED <<D0, uface, pcJac>>
    /\ UNCHANGED <<resVars, bsVars, ctorVars, restVars>>

\* the implicit barrier at the end of the boundary loop (line 773)
BoundaryLoopJoin ==
    /\ pcJac = "bfaces"
    /\ \A f \in BFaces(m) : jiter[f] = "done"
    /\ pcJac' = "ifaces"
    /\ UNCHANGED <<A, D0, uface, calls, jiter>>
    /\ UNCHANGED <<resVars, bsVars, ctorVars, restVars>>

\* a thread takes iteration iface of the interior loop: lines 778-791
StartInteriorFace(iface) ==
    /\ pcJac = "ifaces"
    /\ iface \in IFaces(m)
    /\ jiter[iface] = "todo"
    /\ Cardinality(JRunning(jiter)) < NThreads
    /\ jiter' = [jiter EXCEPT ![iface] = "submitL"]
    /\ UNCHANGED <<A, D0, uface, calls, pcJac>>
    /\ UNCHANGED <<resVars, bsVars, ctorVars, restVars>>

\* lines 793 and 797: the lower block goes to (relem, lelem)
SubmitLower(iface) ==
    /\ pcJac = "ifaces"
    /\ iface \in IFaces(m)
    /\ jiter[iface] = "submitL"
    /\ LET row  == BlockRow(gintfac(m, iface, 1))
           col  == BlockRow(gintfac(m, iface, 0))
           L    == InteriorJacobian(m, u, iface).L
           arg1 == IF A.type = "d" THEN 1 ELSE NVARS
           arg2 == IF A.type = "d" THEN IntFace(m, iface) ELSE NVARS
       IN  /\ A' = submitBlock(A, row, col, L, arg1, arg2)
           /\ calls' = calls \cup
                 {Call(iface, "submitL", "submitBlock", row, col, L, arg1, arg2)}
    /\ jiter' = [jiter EXCEPT ![iface] = "submitU"]
    /\ UNCHANGED <<D0, uface, pcJac>>
    /\ UNCHANGED <<resVars, bsVars, ctorVars, restVars>>

\* lines 794 and 798: the upper block goes to (lelem, relem)
SubmitUpper(iface) ==
    /\ pcJac = "ifaces"
    /\ iface \in IFaces(m)
    /\ jiter[iface] = "submitU"
    /\ LET row  == BlockRow(gintfac(m, iface, 0))
           col  == BlockRow(gintfac(m, iface, 1))
           U    == InteriorJacobian(m, u, iface).U
           arg1 == IF A.type = "d" THEN 2 ELSE NVARS
           arg2 == IF A.type = "d" THEN IntFace(m, iface) ELSE NVARS
       IN  /\ A' = submitBlock(A, row, col, U, arg1, arg2)
           /\ calls' = calls \cup
                 {Call(iface, "submitU", "submitBlock", row, col, U, arg1, arg2)}
    /\ jiter' = [jiter EXCEPT ![iface] = "diagL"]
    /\ UNCHANGED <<D0, uface, pcJac>>
    /\ UNCHANGED <<resVars, bsVars, ctorVars, restVars>>

\* lines 802-803: L *= -1.0; A->updateDiagBlock(lelem*NVARS, L)
DiagLeft(iface) ==
    /\ pcJac = "ifaces"
    /\ iface \in IFaces(m)
    /\ jiter[iface] = "diagL"
    /\ LET row == BlockRow(gintfac(m, iface, 0))
           L   == Negated(InteriorJacobian(m, u, iface).L)
       IN  /\ A' = updateDiagBlock(A, row, L)
           /\ calls' = calls \cup
                 {Call(iface, "diagL", "updateDiagBlock", row, row, L, NVARS, 0)}
    /\ jiter' = [jiter EXCEPT ![iface] = "diagR"]
    /\ UNCHANGED <<D0, uface, pcJac>>
    /\ UNCHANGED <<resVars, bsVars, ctorVars, restVars>>

\* lines 802 and 804: U *= -1.0; A->updateDiagBlock(relem*NVARS, U)
DiagRight(iface) ==
    /\ pcJac = "ifaces"
    /\ iface \in IFaces(m)
    /\ jiter[iface] = "diagR"
    /\ LET row == RightDiagRow(gintfac(m, iface, 0), gintfac(m, iface, 1))
           U   == Negated(InteriorJacobian(m, u, iface).U)
       IN  /\ A' = updateDiagBlock(A, row, U)
           /\ calls' = calls \cup
                 {Call(iface, "diagR", "updateDiagBlock", row, row, U, NVARS, 0)}
    /\ jiter' = [jiter EXCEPT ![iface] = "done"]
    /\ UNCHANGED <<D0, uface, pcJac>>
    /\ UNCHANGED <<resVars, bsVars, ctorVars, restVars>>

\* the implicit barrier at the end of the interior loop; compute_jacobian
\* returns (lines 805-806)
InteriorLoopJoin ==
    /\ pcJac = "ifaces"
    /\ \A f \in IFaces(m) : jiter[f] = "done"
    /\ pcJac' = "done"
    /\ UNCHANGED <<A, D0, uface, calls, jiter>>
    /\ UNCHANGED <<resVars, bsVars, ctorVars, restVars>>

JacNext ==
    \/ \E iface \in Faces(m) : StartBoundaryFace(iface)
    \/ \E iface \in Faces(m) : BoundaryUpdateDiag(iface)
    \/ BoundaryLoopJoin
    \/ \E iface \in Faces(m) : StartInteriorFace(iface)
    \/ \E iface \in Faces(m) : SubmitLower(iface)
    \/ \E iface \in Faces(m) : SubmitUpper(iface)
    \/ \E iface \in Faces(m) : DiagLeft(iface)
    \/ \E iface \in Faces(m) : DiagRight(iface)
    \/ InteriorLoopJoin

Init == ResInit
Next == ResNext
Spec == Init /\ [][Next]_vars

SpecJac == JacInit /\ [][JacNext]_vars

\* a gas at rest with no pressure: its speed of sound and its normal
\* velocity through every face are zero
AtRest == <<1, 0, 0, 0>>

\* compute_residual is asked for the time steps of a mesh that may hold
\* cells at rest
DtInit ==
    /\ m = MeshTri2
    /\ bc = EulerBC
    /\ u \in [Cells(MeshTri2) -> StateSet \cup {AtRest}]
    /\ resid0 = Prior(MeshTri2, 0)
    /\ residual = resid0
    /\ gettimesteps = TRUE
    /\ dtm = [iel \in Cells(MeshTri2) |-> <<0, 1>>]
    /\ integ = <<>>
    /\ uleft = <<>>
    /\ uright = <<>>
    /\ pcRes = "entry"
    /\ iter = [f \in Faces(MeshTri2) |-> 0]
    /\ JacIdle /\ BSIdle /\ CtorIdle /\ RestIdle

SpecDt == DtInit /\ [][ResNext]_vars

----------------------------------------------------------------------------
(* FlowFV::compute_boundary_states(ins, bs) on a viscous configuration *)

\* markers of a viscous case with every kind of boundary configured (the
\* arguments of the constructor, lines 192-196)
NavierStokesBC ==
    [ isothermal_wall_id |-> 7, isothermalbaric_wall_id |-> 8,
      adiabatic_wall_id |-> 5, slip_wall_id |-> 2, inflow_outflow_id |-> 4,
      isothermal_wall_temperature |-> 3 ]

\* the markers that a configuration assigns to some kind of boundary
ConfiguredMarkers(cfg) ==
    { cfg.slip_wall_id, cfg.adiabatic_wall_id, cfg.isothermal_wall_id,
      cfg.isothermalbaric_wall_id, cfg.inflow_outflow_id } \ {-1}

WallMarkers == <<2, 4, 5, 7, 8>>

\* MeshTri3 with the five kinds of boundary on its five boundary faces,
\* face ied carrying the kind number (ied + k) mod 5
MeshWalls(k) ==
    [MeshTri3 EXCEPT !.gallfa =
        [ied \in 1..7 |->
            IF ied <= 5
            THEN [MeshTri3.gallfa[ied] EXCEPT ![4] = WallMarkers[((ied + k) % 5) + 1]]
            ELSE MeshTri3.gallfa[ied]]]

\* the components of bs that compute_boundary_state assigns for a marker:
\* each of its if statements assigns all of them (lines 375-443)
WrittenComponents(cfg, marker) ==
    IF \/ marker = cfg.slip_wall_id
       \/ marker = cfg.isothermal_wall_id
       \/ marker = cfg.adiabatic_wall_id
       \/ marker = cfg.inflow_outflow_id
       \/ marker = -1
    THEN Vars ELSE {}

BSInit ==
    /\ \E k \in 0..4 : m = MeshWalls(k)
    /\ bc = NavierStokesBC
    /\ u \in [Cells(m) -> StateSet]
    /\ uleft = [f \in Faces(m) |-> u[gintfac(m, f, 0)]]
    /\ \E g \in Garbage :
          uright = [f \in Faces(m) |->
                      IF f \in IFaces(m) THEN u[gintfac(m, f, 1)] ELSE g]
    /\ written = [f \in BFaces(m) |-> {}]
    /\ pcBS = "loop"
    /\ residual = <<>> /\ resid0 = <<>> /\ integ = <<>> /\ dtm = <<>>
    /\ gettimesteps = FALSE /\ pcRes = "idle"
    /\ iter = [f \in BFaces(m) |-> 0]
    /\ JacIdle /\ CtorIdle /\ RestIdle

\* lines 362-365: one iteration of the parallel loop,
\* compute_boundary_state(ied, &ins(ied,0), &bs(ied,0))
BoundaryStateFace(ied) ==
    /\ pcBS = "loop"
    /\ iter[ied] = 0
    /\ uright' = [uright EXCEPT ![ied] =
          compute_boundary_state(bc, ggallfa(m, ied, 3), Normal(m, ied),
                                 uleft[ied], uright[ied])]
    /\ written' = [written EXCEPT ![ied] =
          @ \cup WrittenComponents(bc, ggallfa(m, ied, 3))]
    /\ iter' = [iter EXCEPT ![ied] = 1]
    /\ UNCHANGED <<m, bc, u, residual, resid0, integ, uleft, dtm, gettimesteps,
                   pcRes, pcBS>>
    /\ UNCHANGED <<jacVars, ctorVars, restVars>>

\* line 366: the loop has ended, compute_boundary_states returns
BoundaryStatesReturn ==
    /\ pcBS = "loop"
    /\ \A f \in BFaces(m) : iter[f] = 1
    /\ pcBS' = "done"
    /\ UNCHANGED <<resVars, written>>
    /\ UNCHANGED <<jacVars, ctorVars, restVars>>

BSNext ==
    \/ \E ied \in BFaces(m) : BoundaryStateFace(ied)
    \/ BoundaryStatesReturn

SpecBS == BSInit /\ [][BSNext]_vars

----------------------------------------------------------------------------
(* main: the control file is read, the FlowFV object is constructed and    *)
(* the solver uses it.                                                     *)

\* largest number of residual evaluations and of Jacobian assemblies that
\* the solver makes
MaxCalls == 2

\* the names the constructor compares its arguments with
FluxNames == { "VANLEER", "ROE", "HLL", "HLLC", "LLF" }
ReconstructionNames == { "LEASTSQUARES", "GREENGAUSS" }
LimiterNames ==
    { "NONE", "WENO", "VANALBADA", "BARTHJESPERSEN", "VENKATAKRISHNAN" }

\* what a control file may hold for these options; "hllc" is the spelling of
\* tests/inv-2dcyl/inv-cyl-gg-hllc_tri.ctrl
FluxOptions == FluxNames \cup { "consistent", "UNKNOWN", "hllc", "Roe" }
ReconstructionOptions == ReconstructionNames \cup { "NONE" }
LimiterOptions == LimiterNames \cup { "UNKNOWN" }
TimeStepTypes == { "IMPLICIT", "EXPLICIT" }

\* a member pointer that no statement of the constructor has assigned
Unset == "unset"

\* lines 217-242: inviflux after the first chain of if statements; the
\* final else only prints "! Flux scheme not available!"
SetInviscidFlux(invflux) == IF invflux \in FluxNames THEN invflux ELSE Unset

\* lines 245-275: jflux and allocflux after the second chain
SetJacobianFlux(jacflux) ==
    [ jflux     |-> IF jacflux \in FluxNames THEN jacflux ELSE Unset,
      allocflux |-> jacflux \in FluxNames ]

\* lines 278-294: rec and secondOrderRequested
SetReconstruction(reconst) ==
    [ rec |-> IF reconst \in ReconstructionNames THEN reconst ELSE "CONSTANT",
      secondOrderRequested |-> reconst \in ReconstructionNames ]

\* lines 297-321: lim after the third chain, which has no final else
SetLimiter(limiter) == IF limiter \in LimiterNames THEN limiter ELSE Unset

\* FlowFV::FlowFV(..., invflux, jacflux, reconst, limiter, ...)
FlowFV(invflux, jacflux, reconst, limiter) ==
    [ inviflux  |-> SetInviscidFlux(invflux),
      jflux     |-> SetJacobianFlux(jacflux).jflux,
      allocflux |-> SetJacobianFlux(jacflux).allocflux,
      rec       |-> SetReconstruction(reconst).rec,
      secondOrderRequested |-> SetReconstruction(reconst).secondOrderRequested,
      lim       |-> SetLimiter(limiter) ]

\* the member pointers compute_residual dereferences (lines 524-525,
\* 545-546 and 591)
ResidualUses(p) ==
    { p.inviflux } \cup (IF p.secondOrderRequested THEN { p.rec, p.lim } ELSE {})

\* the member pointer compute_jacobian dereferences (lines 768 and 789)
JacobianUses(p) == { p.jflux }

CtorInit ==
    /\ opts = <<>>
    /\ prob = <<>>
    /\ pcMain = "start"
    /\ nres = 0 /\ njac = 0 /\ ub = FALSE
    /\ m = MeshTri2 /\ bc = EulerBC /\ u = <<>>
    /\ residual = <<>> /\ resid0 = <<>> /\ integ = <<>> /\ uleft = <<>>
    /\ uright = <<>> /\ dtm = <<>> /\ gettimesteps = FALSE
    /\ pcRes = "idle" /\ iter = <<>>
    /\ JacIdle /\ BSIdle /\ RestIdle

\* main reads the options from the control file; an explicit run takes the
\* flux of the residual for the Jacobian
ReadControlFile ==
    /\ pcMain = "start"
    /\ \E invflux \in FluxOptions, jacflux \in FluxOptions,
          reconst \in ReconstructionOptions, limiter \in LimiterOptions,
          timesteptype \in TimeStepTypes :
          opts' = [ invflux |-> invflux,
                    invfluxjac |-> IF timesteptype = "IMPLICIT"
                                   THEN jacflux ELSE invflux,
                    reconst |-> reconst, limiter |-> limiter,
                    timesteptype |-> timesteptype ]
    /\ pcMain' = "parsed"
    /\ UNCHANGED <<prob, nres, njac, ub>>
    /\ UNCHANGED <<resVars, jacVars, bsVars, restVars>>

\* main constructs prob from the options it read
Construct ==
    /\ pcMain = "parsed"
    /\ prob' = FlowFV(opts.invflux, opts.invfluxjac, opts.reconst, opts.limiter)
    /\ pcMain' = "solve"
    /\ UNCHANGED <<opts, nres, njac, ub>>
    /\ UNCHANGED <<resVars, jacVars, bsVars, restVars>>

\* the solver calls compute_residual and every pointer it uses is set
ComputeResidual ==
    /\ pcMain = "solve"
    /\ nres < MaxCalls
    /\ Unset \notin ResidualUses(prob)
    /\ nres' = nres + 1
    /\ UNCHANGED <<opts, prob, pcMain, njac, ub>>
    /\ UNCHANGED <<resVars, jacVars, bsVars, restVars>>

\* the solver calls compute_residual, which uses an unset pointer, and the
\* call returns all the same
ComputeResidualUnset ==
    /\ pcMain = "solve"
    /\ nres < MaxCalls
    /\ Unset \in ResidualUses(prob)
    /\ nres' = nres + 1
    /\ ub' = TRUE
    /\ UNCHANGED <<opts, prob, pcMain, njac>>
    /\ UNCHANGED <<resVars, jacVars, bsVars, restVars>>

\* the solver of an implicit run calls compute_jacobian and jflux is set
ComputeJacobian ==
    /\ pcMain = "solve"
    /\ opts.timesteptype = "IMPLICIT"
    /\ njac < MaxCalls
    /\ Unset \notin JacobianUses(prob)
    /\ njac' = njac + 1
    /\ UNCHANGED <<opts, prob, pcMain, nres, ub>>
    /\ UNCHANGED <<resVars, jacVars, bsVars, restVars>>

\* the solver calls compute_jacobian, which uses the unset jflux, and the
\* call returns all the same
ComputeJacobianUnset ==
    /\ pcMain = "solve"
    /\ opts.timesteptype = "IMPLICIT"
    /\ njac < MaxCalls
    /\ Unset \in JacobianUses(prob)
    /\ njac' = njac + 1
    /\ ub' = TRUE
    /\ UNCHANGED <<opts, prob, pcMain, nres>>
    /\ UNCHANGED <<resVars, jacVars, bsVars, restVars>>

\* a call that uses an unset pointer ends the process instead
Crash ==
    /\ pcMain = "solve"
    /\ \/ nres < MaxCalls /\ Unset \in ResidualUses(prob)
       \/ /\ njac < MaxCalls /\ opts.timesteptype = "IMPLICIT"
          /\ Unset \in JacobianUses(prob)
    /\ pcMain' = "crashed"
    /\ ub' = TRUE
    /\ UNCHANGED <<opts, prob, nres, njac>>
    /\ UNCHANGED <<resVars, jacVars, bsVars, restVars>>

\* the solver has converged or reached its last step; main writes the
\* output and returns 0
Return ==
    /\ pcMain = "solve"
    /\ nres > 0
    /\ pcMain' = "returned"
    /\ UNCHANGED <<opts, prob, nres, njac, ub>>
    /\ UNCHANGED <<resVars, jacVars, bsVars, restVars>>

CtorNext ==
    \/ ReadControlFile
    \/ Construct
    \/ ComputeResidual
    \/ ComputeResidualUnset
    \/ ComputeJacobian
    \/ ComputeJacobianUnset
    \/ Crash
    \/ Return

SpecCtor == CtorInit /\ [][CtorNext]_vars

----------------------------------------------------------------------------
(* FlowFV::compute_boundary_state as a function of the interior state, the *)
(* face normal and the marker of the face                                  *)

\* largest density and largest momentum component of the interior states
MaxRho == 2
MaxMom == 8

\* the unit normals that are exact in fifths
UnitNormals ==
    { <<5, 0>>, <<-5, 0>>, <<0, 5>>, <<0, -5>>,
      <<4, 3>>, <<3, 4>>, <<-4, 3>>, <<-3, 4>>,
      <<4, -3>>, <<3, -4>>, <<-4, -3>>, <<-3, -4>> }

\* interior states of positive density and positive pressure
InteriorStates ==
    { <<rho, mx, my, 80>> : rho \in 1..MaxRho, mx \in -MaxMom..MaxMom,
                            my \in -MaxMom..MaxMom }

\* the divisions of the slip-wall rule (lines 373 and 378-379) leave no
\* remainder in the integer arithmetic of the model
ExactSlip(ins, n) ==
    LET mn == ins[2] * n[1] + ins[3] * n[2]
    IN  /\ mn % ins[1] = 0
        /\ (2 * (mn \div ins[1]) * n[1] * ins[1]) % 25 = 0
        /\ (2 * (mn \div ins[1]) * n[2] * ins[1]) % 25 = 0

GhostInit ==
    /\ \E cfg \in {EulerBC, NavierStokesBC}, n \in UnitNormals,
          ins \in InteriorStates, g \in Garbage :
          \E marker \in {cfg.slip_wall_id, cfg.inflow_outflow_id} :
             /\ marker = cfg.slip_wall_id => ExactSlip(ins, n)
             /\ fnIn = [ cfg |-> cfg, marker |-> marker, n |-> n, ins |-> ins,
                         bs |-> g ]
    /\ fnOut = <<>>
    /\ pcFn = "call"
    /\ m = MeshTri2 /\ bc = EulerBC /\ u = <<>>
    /\ residual = <<>> /\ resid0 = <<>> /\ integ = <<>> /\ uleft = <<>>
    /\ uright = <<>> /\ dtm = <<>> /\ gettimesteps = FALSE
    /\ pcRes = "idle" /\ iter = <<>>
    /\ JacIdle /\ BSIdle /\ CtorIdle /\ DrvIdle /\ StartIdle

\* compute_boundary_state(ied, ins, bs) on a face with the given marker and
\* normal
GhostCall ==
    /\ pcFn = "call"
    /\ fnOut' = << compute_boundary_state(fnIn.cfg, fnIn.marker, fnIn.n,
                                          fnIn.ins, fnIn.bs) >>
    /\ pcFn' = "again"
    /\ UNCHANGED fnIn
    /\ UNCHANGED <<resVars, jacVars, bsVars, ctorVars, drvVars, startVars>>

\* the same call with the ghost state just computed as the interior state
GhostCallAgain ==
    /\ pcFn = "again"
    /\ fnOut' = Append(fnOut,
          compute_boundary_state(fnIn.cfg, fnIn.marker, fnIn.n, fnOut[1],
                                 fnIn.bs))
    /\ pcFn' = "done"
    /\ UNCHANGED fnIn
    /\ UNCHANGED <<resVars, jacVars, bsVars, ctorVars, drvVars, startVars>>

GhostNext == GhostCall \/ GhostCallAgain

SpecGhost == GhostInit /\ [][GhostNext]_vars

----------------------------------------------------------------------------
(* Spatial::compute_ghost_cell_coords_about_midpoint for one boundary      *)
(* face, as a function of the two end points of the face and the centre of *)
(* its left cell.  Coordinates are stored in halves (the point (1, 3/2) is *)
(* stored as <<2, 3>>); the nodes have whole coordinates, so that the      *)
(* product with 0.5 is exact.                                              *)

\* largest coordinate of a node and of a cell centre
MaxCoord == 2

Dims == 1..2

\* the nodes of the mesh, in halves
Nodes == { <<2 * x, 2 * y>> : x \in 0..MaxCoord, y \in 0..MaxCoord }

\* the cell centres, in halves
Centres == { <<x, y>> : x \in 0..(2 * MaxCoord), y \in 0..(2 * MaxCoord) }

\* the ghost centre taken as the midpoint mirrored without the factor 2
GhostCentre_NoDouble(p1, p2, rcell) ==
    LET midpoint == [idim \in Dims |-> (p1[idim] + p2[idim]) \div 2]
    IN  [idim \in Dims |-> midpoint[idim] - rcell[idim]]

\* lines 70-77: midpoint = 0.5*(p1 + p2), rcg = 2*midpoint - rc
GhostCentre(p1, p2, rcell) ==
    LET midpoint == [idim \in Dims |-> (p1[idim] + p2[idim]) \div 2]
    IN  [idim \in Dims |-> 2 * midpoint[idim] - rcell[idim]]

GhostCoordsInit ==
    /\ \E p1 \in Nodes, p2 \in Nodes, rcell \in Centres :
          /\ p1 # p2
          /\ fnIn = [ p1 |-> p1, p2 |-> p2, rc |-> rcell ]
    /\ fnOut = <<>>
    /\ pcFn = "call"
    /\ m = MeshTri2 /\ bc = EulerBC /\ u = <<>>
    /\ residual = <<>> /\ resid0 = <<>> /\ integ = <<>> /\ uleft = <<>>
    /\ uright = <<>> /\ dtm = <<>> /\ gettimesteps = FALSE
    /\ pcRes = "idle" /\ iter = <<>>
    /\ JacIdle /\ BSIdle /\ CtorIdle /\ DrvIdle /\ StartIdle

\* one iteration of the loop over the boundary faces
GhostCoordsFace ==
    /\ pcFn = "call"
    /\ fnOut' = << GhostCentre(fnIn.p1, fnIn.p2, fnIn.rc) >>
    /\ pcFn' = "done"
    /\ UNCHANGED fnIn
    /\ UNCHANGED <<resVars, jacVars, bsVars, ctorVars, drvVars, startVars>>

SpecGhostCoords == GhostCoordsInit /\ [][GhostCoordsFace]_vars

----------------------------------------------------------------------------
(* FlowFV::compute_residual on a free stream: every cell holds uinf, as    *)
(* initializeUnknowns leaves it, and every boundary face is a far-field    *)
(* face                                                                    *)

\* the two triangles with the far-field marker on all four boundary faces
MeshFar ==
    [ MeshTri2 EXCEPT
        !.gallfa = [f \in 1..MeshTri2.naface |->
                      IF f <= MeshTri2.nbface
                      THEN [MeshTri2.gallfa[f] EXCEPT
                               ![4] = EulerBC.inflow_outflow_id]
                      ELSE MeshTri2.gallfa[f]] ]

\* lines 341-352: every cell is set to uinf
initializeUnknowns(mesh) == [iel \in Cells(mesh) |-> uinf]

FreeStreamInit ==
    /\ m = MeshFar
    /\ bc = EulerBC
    /\ u = initializeUnknowns(MeshFar)
    /\ \E k \in 0..MaxPrior : resid0 = Prior(MeshFar, k)
    /\ residual = resid0
    /\ gettimesteps \in BOOLEAN
    /\ dtm = IF gettimesteps THEN [iel \in Cells(MeshFar) |-> <<0, 1>>] ELSE <<>>
    /\ integ = <<>>
    /\ uleft = <<>>
    /\ uright = <<>>
    /\ pcRes = "entry"
    /\ iter = [f \in Faces(MeshFar) |-> 0]
    /\ JacIdle /\ BSIdle /\ CtorIdle /\ RestIdle

SpecFreeStream == FreeStreamInit /\ [][ResNext]_vars

----------------------------------------------------------------------------
(* The pseudo-time driver.  test_speedup_sweeps and run_sweeps stage the   *)
(* starter solve and the main solves; SteadySolver::solve is the loop of   *)
(* pseudo-time steps of one stage.  The solution vector is represented by  *)
(* the norm of its residual.                                               *)

\* largest max_timesteps and ramp_end of a stage
MaxIter == 2
\* largest residual norm
MaxRes == 2
\* largest number of entries of sweep_seq
MaxSweeps == 1

\* the pairs <<ramp_start, ramp_end>> of a stage: no ramp, a ramp from the
\* first step, a ramp from the second step, and ramp_end before ramp_start
Ramps == { <<0, 0>>, <<0, MaxIter>>, <<1, MaxIter>>, <<MaxIter, 1>> }

\* the SteadySolverConfig records of a stage; invtol is 1/tolerance
StageConfigs(cflinit, cflfin, invtol) ==
    { [ cflinit |-> cflinit, cflfin |-> cflfin,
        rampstart |-> r[1], rampend |-> r[2],
        invtol |-> invtol, maxiter |-> n ] : r \in Ramps, n \in 0..MaxIter }

\* starttconf and maintconf with the CFL numbers and tolerances of
\* inv-cyl-gg-hllc_tri.ctrl
TimeConfigs ==
    [ usestarter : {0, 1},
      start : StageConfigs(25, 250, 10),
      main : StageConfigs(250, 1000, 100000) ]

\* no solve of the stage has returned yet
NoReturn == [ status |-> "none", steps |-> 0, u |-> 0 ]

\* a CFL number is a fraction <<numerator, denominator>> with a positive
\* denominator
Leq(a, b) == a[1] * b[2] <= b[1] * a[2]

\* the CFL number of step k, interpolated from step 0
CFLRamp_FromZero(conf, k) ==
    IF k < conf.rampstart THEN <<conf.cflinit, 1>>
    ELSE IF k >= conf.rampend THEN <<conf.cflfin, 1>>
    ELSE << conf.cflinit * (conf.rampend - conf.rampstart)
              + (conf.cflfin - conf.cflinit) * k,
            conf.rampend - conf.rampstart >>

\* the CFL number of step k
CFLRamp(conf, k) ==
    IF k < conf.rampstart THEN <<conf.cflinit, 1>>
    ELSE IF k >= conf.rampend THEN <<conf.cflfin, 1>>
    ELSE << conf.cflinit * (conf.rampend - conf.rampstart)
              + (conf.cflfin - conf.cflinit) * (k - conf.rampstart),
            conf.rampend - conf.rampstart >>

\* the residual norm relative to that of the start of the stage is below the
\* tolerance
Converged(conf, res, res0) == res * conf.invtol < res0

\* the stage goes on without a bound on its steps
StepsLeft_Unbounded(conf, k) == TRUE

\* the stage has not used up its max_timesteps
StepsLeft(conf, k) == k < conf.maxiter

\* the vector the main solve starts from, were it initialized afresh
MainStart_Fresh(uu) == 1

\* the vector the main solve starts from: VecCopy(u, ut)
MainStart(uu) == uu

\* opts.usestarter != 0
StarterConfigured(conf) == conf.usestarter # 0

\* what a solve returns when it leaves its loop
SolveReturn(conf, k, res, res0) ==
    [ status |-> IF Converged(conf, res, res0) THEN "converged"
                 ELSE "not_converged",
      steps |-> k, u |-> res ]

DrvInit ==
    /\ tconf \in TimeConfigs
    /\ stage = "Idle"
    /\ step = 0
    /\ curCFL = <<0, 1>>
    /\ usol \in 1..MaxRes
    /\ ut = 0
    /\ initres = 0
    /\ ret = [ starter |-> NoReturn, main |-> NoReturn ]
    /\ nruns \in 1..(1 + MaxSweeps)
    /\ m = MeshTri2 /\ bc = EulerBC /\ u = <<>>
    /\ residual = <<>> /\ resid0 = <<>> /\ integ = <<>> /\ uleft = <<>>
    /\ uright = <<>> /\ dtm = <<>> /\ gettimesteps = FALSE
    /\ pcRes = "idle" /\ iter = <<>>
    /\ JacIdle /\ BSIdle /\ CtorIdle /\ FnIdle /\ StartIdle

\* test_speedup_sweeps: the starter solve begins
StartStarter ==
    /\ stage = "Idle"
    /\ StarterConfigured(tconf)
    /\ stage' = "StarterRunning"
    /\ step' = 0
    /\ initres' = usol
    /\ UNCHANGED <<tconf, curCFL, usol, ut, ret, nruns>>
    /\ UNCHANGED <<resVars, jacVars, bsVars, ctorVars, fnVars, startVars>>

\* test_speedup_sweeps: no starter solve
SkipStarter ==
    /\ stage = "Idle"
    /\ ~StarterConfigured(tconf)
    /\ stage' = "Benchmarking"
    /\ UNCHANGED <<tconf, step, curCFL, usol, ut, initres, ret, nruns>>
    /\ UNCHANGED <<resVars, jacVars, bsVars, ctorVars, fnVars, startVars>>

\* one pseudo-time step of the starter solve, which works on u; a residual
\* that is not a number aborts the solve
StarterStep ==
    /\ stage = "StarterRunning"
    /\ StepsLeft(tconf.start, step)
    /\ ~Converged(tconf.start, usol, initres)
    /\ curCFL' = CFLRamp(tconf.start, step)
    /\ step' = step + 1
    /\ \E nan \in BOOLEAN, r \in 0..MaxRes :
          IF nan THEN stage' = "Diverged" /\ UNCHANGED usol
          ELSE stage' = stage /\ usol' = r
    /\ UNCHANGED <<tconf, ut, initres, ret, nruns>>
    /\ UNCHANGED <<resVars, jacVars, bsVars, ctorVars, fnVars, startVars>>

\* the starter solve returns
StarterReturn ==
    /\ stage = "StarterRunning"
    /\ ~StepsLeft(tconf.start, step) \/ Converged(tconf.start, usol, initres)
    /\ ret' = [ret EXCEPT
                  !.starter = SolveReturn(tconf.start, step, usol, initres)]
    /\ stage' = "Benchmarking"
    /\ UNCHANGED <<tconf, step, curCFL, usol, ut, initres, nruns>>
    /\ UNCHANGED <<resVars, jacVars, bsVars, ctorVars, fnVars, startVars>>

\* run_sweeps: a main solve begins on a copy of u
RunSweeps ==
    /\ stage = "Benchmarking"
    /\ nruns > 0
    /\ nruns' = nruns - 1
    /\ ut' = MainStart(usol)
    /\ initres' = MainStart(usol)
    /\ step' = 0
    /\ stage' = "MainRunning"
    /\ UNCHANGED <<tconf, curCFL, usol, ret>>
    /\ UNCHANGED <<resVars, jacVars, bsVars, ctorVars, fnVars, startVars>>

\* one pseudo-time step of the main solve, which works on ut
MainStep ==
    /\ stage = "MainRunning"
    /\ StepsLeft(tconf.main, step)
    /\ ~Converged(tconf.main, ut, initres)
    /\ curCFL' = CFLRamp(tconf.main, step)
    /\ step' = step + 1
    /\ \E nan \in BOOLEAN, r \in 0..MaxRes :
          IF nan THEN stage' = "Diverged" /\ UNCHANGED ut
          ELSE stage' = stage /\ ut' = r
    /\ UNCHANGED <<tconf, usol, initres, ret, nruns>>
    /\ UNCHANGED <<resVars, jacVars, bsVars, ctorVars, fnVars, startVars>>

\* the copy left alive when run_sweeps returns
VecDestroy_Keep(v) == v

\* VecDestroy(&ut): no copy is left, written 0 as before the first run
VecDestroy(v) == 0

\* the main solve returns to run_sweeps, which destroys the copy and returns
MainReturn ==
    /\ stage = "MainRunning"
    /\ ~StepsLeft(tconf.main, step) \/ Converged(tconf.main, ut, initres)
    /\ ret' = [ret EXCEPT !.main = SolveReturn(tconf.main, step, ut, initres)]
    /\ ut' = VecDestroy(ut)
    /\ stage' = "Benchmarking"
    /\ UNCHANGED <<tconf, step, curCFL, usol, initres, nruns>>
    /\ UNCHANGED <<resVars, jacVars, bsVars, ctorVars, fnVars, startVars>>

\* test_speedup_sweeps returns after the last run
DrvReturn ==
    /\ stage = "Benchmarking"
    /\ nruns = 0
    /\ stage' = "Done"
    /\ UNCHANGED <<tconf, step, curCFL, usol, ut, initres, ret, nruns>>
    /\ UNCHANGED <<resVars, jacVars, bsVars, ctorVars, fnVars, startVars>>

DrvNext ==
    \/ StartStarter
    \/ SkipStarter
    \/ StarterStep
    \/ StarterReturn
    \/ RunSweeps
    \/ MainStep
    \/ MainReturn
    \/ DrvReturn

SpecDriver == DrvInit /\ [][DrvNext]_vars

\* the driver is a sequential program: it takes its next step whenever it
\* has one
SpecDriverFair == SpecDriver /\ WF_vars(DrvNext)

----------------------------------------------------------------------------
(* Start-up: the command line, the control file and the mesh file.  The    *)
(* program is started either through main (part_001), which reads the      *)
(* control file itself, or through a driver that calls                     *)
(* parse_flow_controlfile (part_002) and then reads the mesh, as           *)
(* test_speedup_sweeps does.                                               *)

\* the mesh-file entry that stands for "take the mesh from the command line"
Sentinel == "READFROMCMD"

\* the files that can be read as a mesh
MeshFiles == {"grid.msh", "cmd.msh"}

\* the command lines and control files the program is started with:
\* argc, argv[2] (when argc >= 3), whether argv[1] can be opened, and the
\* mesh-file entry of the control file
StartArgs ==
    [ argc : 1..3, argv2 : {"cmd.msh", "none.msh"}, ctrlOpens : BOOLEAN,
      ctrlMesh : {Sentinel, "grid.msh", "none.msh"} ]

\* what the first read of the control file leaves in meshfile: a stream
\* that could not be opened leaves the string empty
ReadMeshEntry(a) == IF a.ctrlOpens THEN a.ctrlMesh ELSE ""

StartInit ==
    /\ args \in StartArgs
    /\ entry \in {"main", "parse_flow_controlfile"}
    /\ pcStart = "args"
    /\ meshfile = ""
    /\ meshReads = <<>>
    /\ solved = FALSE
    /\ exitStatus = 0
    /\ m = MeshTri2 /\ bc = EulerBC /\ u = <<>>
    /\ residual = <<>> /\ resid0 = <<>> /\ integ = <<>> /\ uleft = <<>>
    /\ uright = <<>> /\ dtm = <<>> /\ gettimesteps = FALSE
    /\ pcRes = "idle" /\ iter = <<>>
    /\ JacIdle /\ BSIdle /\ CtorIdle /\ FnIdle /\ DrvIdle

\* the process ends with the given status
Exit(status) ==
    /\ pcStart' = "exited"
    /\ exitStatus' = status
    /\ UNCHANGED <<args, entry, meshfile, meshReads, solved>>

\* main, part_001 339-343: without a control-file argument main returns -1
MainCheckArgs ==
    /\ entry = "main" /\ pcStart = "args"
    /\ IF args.argc < 2
       THEN Exit(-1)
       ELSE /\ pcStart' = "control"
            /\ UNCHANGED <<args, entry, meshfile, meshReads, solved, exitStatus>>
    /\ UNCHANGED <<resVars, jacVars, bsVars, ctorVars, fnVars, drvVars>>

\* main, part_001 346-362: the control file is opened and read; the stream
\* is not tested
MainReadControl ==
    /\ entry = "main" /\ pcStart = "control"
    /\ meshfile' = ReadMeshEntry(args)
    /\ pcStart' = "sentinel"
    /\ UNCHANGED <<args, entry, meshReads, solved, exitStatus>>
    /\ UNCHANGED <<resVars, jacVars, bsVars, ctorVars, fnVars, drvVars>>

\* main, part_001 440-446: the sentinel is replaced by argv[2] when there is
\* one; otherwise a message is printed and main goes on
MainSentinel ==
    /\ entry = "main" /\ pcStart = "sentinel"
    /\ meshfile' = IF meshfile = Sentinel /\ args.argc >= 3
                   THEN args.argv2 ELSE meshfile
    /\ pcStart' = "mesh"
    /\ UNCHANGED <<args, entry, meshReads, solved, exitStatus>>
    /\ UNCHANGED <<resVars, jacVars, bsVars, ctorVars, fnVars, drvVars>>

\* parse_flow_controlfile, part_002 30-34: without a control-file argument
\* the process aborts
ParseCheckArgs ==
    /\ entry = "parse_flow_controlfile" /\ pcStart = "args"
    /\ IF args.argc < 2
       THEN Exit(134)
       ELSE /\ pcStart' = "control"
            /\ UNCHANGED <<args, entry, meshfile, meshReads, solved, exitStatus>>
    /\ UNCHANGED <<resVars, jacVars, bsVars, ctorVars, fnVars, drvVars>>

\* parse_flow_controlfile, part_002 52-55, and open_file_toRead, 6-15: a
\* control file that cannot be opened aborts the process
ParseReadControl ==
    /\ entry = "parse_flow_controlfile" /\ pcStart = "control"
    /\ IF ~args.ctrlOpens
       THEN Exit(134)
       ELSE /\ meshfile' = ReadMeshEntry(args)
            /\ pcStart' = "sentinel"
            /\ UNCHANGED <<args, entry, meshReads, solved, exitStatus>>
    /\ UNCHANGED <<resVars, jacVars, bsVars, ctorVars, fnVars, drvVars>>

\* parse_flow_controlfile, part_002 56-65: the sentinel is replaced by
\* argv[2] when there is one; otherwise the process aborts
ParseSentinel ==
    /\ entry = "parse_flow_controlfile" /\ pcStart = "sentinel"
    /\ IF meshfile = Sentinel /\ args.argc < 3
       THEN Exit(134)
       ELSE /\ meshfile' = IF meshfile = Sentinel THEN args.argv2 ELSE meshfile
            /\ pcStart' = "mesh"
            /\ UNCHANGED <<args, entry, meshReads, solved, exitStatus>>
    /\ UNCHANGED <<resVars, jacVars, bsVars, ctorVars, fnVars, drvVars>>

\* m.readGmsh2(meshfile, 2) in main, m.readMesh(opts.meshfile) in
\* test_speedup_sweeps; a path that is no mesh file ends the process with a
\* nonzero status
ReadMesh ==
    /\ pcStart = "mesh"
    /\ meshReads' = Append(meshReads, meshfile)
    /\ IF meshfile \in MeshFiles
       THEN pcStart' = "solve" /\ UNCHANGED exitStatus
       ELSE pcStart' = "exited" /\ exitStatus' = 1
    /\ UNCHANGED <<args, entry, meshfile, solved>>
    /\ UNCHANGED <<resVars, jacVars, bsVars, ctorVars, fnVars, drvVars>>

\* time->solve(logfile) in main, the solves of test_speedup_sweeps
Solve ==
    /\ pcStart = "solve"
    /\ solved' = TRUE
    /\ pcStart' = "output"
    /\ UNCHANGED <<args, entry, meshfile, meshReads, exitStatus>>
    /\ UNCHANGED <<resVars, jacVars, bsVars, ctorVars, fnVars, drvVars>>

\* main, part_001 499-510: the output is written and main returns 0
ReturnZero ==
    /\ pcStart = "output"
    /\ Exit(0)
    /\ UNCHANGED <<resVars, jacVars, bsVars, ctorVars, fnVars, drvVars>>

StartNext ==
    \/ MainCheckArgs
    \/ MainReadControl
    \/ MainSentinel
    \/ ParseCheckArgs
    \/ ParseReadControl
    \/ ParseSentinel
    \/ ReadMesh
    \/ Solve
    \/ ReturnZero

SpecStart == StartInit /\ [][StartNext]_vars

----------------------------------------------------------------------------
(* Spatial::compute_jac_vec, the matrix-free Jacobian-vector product.  It  *)
(* calls compute_residual, which is taken here as the function of its      *)
(* arguments that the flux loop computes under every schedule: the         *)
(* contents of the residual array on entry plus the face fluxes.           *)

\* the perturbation size eps of the Spatial object
Eps == 2

RECURSIVE AddFaceFluxes(_, _, _, _, _)
\* the residual array after the iterations 0..n-1 of the flux loop
AddFaceFluxes(mesh, ul, ur, res, n) ==
    IF n = 0 THEN res
    ELSE LET before == AddFaceFluxes(mesh, ul, ur, res, n - 1)
             ied    == n - 1
             lelem  == gintfac(mesh, ied, 0)
             relem  == gintfac(mesh, ied, 1)
             fl     == FaceFlux(mesh, ul, ur, ied)
             left   == [before EXCEPT ![lelem] = [i \in Vars |-> @[i] + fl[i]]]
         IN  IF relem < gnelem(mesh)
             THEN [left EXCEPT ![relem] = [i \in Vars |-> @[i] - fl[i]]]
             ELSE left

\* compute_residual(u, residual, false, dtm) of the first-order scheme: what
\* it leaves in the residual array res
compute_residual(mesh, cfg, uu, res) ==
    LET ul == [f \in Faces(mesh) |-> uu[gintfac(mesh, f, 0)]]
        ui == [f \in Faces(mesh) |->
                 IF f \in IFaces(mesh) THEN uu[gintfac(mesh, f, 1)] ELSE ul[f]]
        ur == compute_boundary_states(mesh, cfg, ul, ui)
    IN  AddFaceFluxes(mesh, ul, ur, res, gnaface(mesh))

\* the vector with the single entry c in component ivar of cell iel
AxisVector(mesh, iel, ivar, c) ==
    [jel \in Cells(mesh) |->
        [j \in Vars |-> IF jel = iel /\ j = ivar THEN c ELSE 0]]

\* sqrt(dot(N, v, v))
VecNorm(mesh, v) ==
    ISqrt(SumOver([iel \in Cells(mesh) |->
                      SumOver([i \in Vars |-> v[iel][i] * v[iel][i]], Vars)],
                  Cells(mesh)))

\* the directions v: one momentum or energy component of one cell, of
\* length 1 or 2
Directions ==
    { AxisVector(MeshTri2, iel, ivar, c) :
        iel \in Cells(MeshTri2), ivar \in 2..NVARS, c \in 1..Eps }

JacVecInit ==
    /\ \E v \in Directions, atd \in BOOLEAN, k \in 0..MaxPrior,
          g \in Garbage, w \in 1..2 :
          fnIn = [ u |-> initializeUnknowns(MeshTri2),
                   resu |-> compute_residual(MeshTri2, EulerBC,
                               initializeUnknowns(MeshTri2),
                               [iel \in Cells(MeshTri2) |-> ZeroVec]),
                   v |-> v, add_time_deriv |-> atd,
                   dtm |-> [iel \in Cells(MeshTri2) |->
                              <<garea(MeshTri2, iel), w>>],
                   aux |-> [iel \in Cells(MeshTri2) |-> g],
                   prod |-> Prior(MeshTri2, k) ]
    /\ fnOut = <<>>
    /\ pcFn = "call"
    /\ m = MeshTri2 /\ bc = EulerBC /\ u = <<>>
    /\ residual = <<>> /\ resid0 = <<>> /\ integ = <<>> /\ uleft = <<>>
    /\ uright = <<>> /\ dtm = <<>> /\ gettimesteps = FALSE
    /\ pcRes = "idle" /\ iter = <<>>
    /\ JacIdle /\ BSIdle /\ CtorIdle /\ DrvIdle /\ StartIdle

\* eps/vnorm
Perturbation(v) == Eps \div VecNorm(m, v)

\* lines 131-135: aux = 0.0*aux + 1.0*u + eps/vnorm*v
JacVecPerturb ==
    /\ pcFn = "call"
    /\ fnOut' = [ aux |-> [iel \in Cells(m) |-> [i \in Vars |->
                             0 * fnIn.aux[iel][i] + fnIn.u[iel][i]
                               + Perturbation(fnIn.v) * fnIn.v[iel][i]]],
                  prod |-> fnIn.prod ]
    /\ pcFn' = "residual"
    /\ UNCHANGED fnIn
    /\ UNCHANGED <<resVars, jacVars, bsVars, ctorVars, drvVars, startVars>>

\* lines 137-139: compute_residual(aux, prod, false, _dtm)
JacVecResidual ==
    /\ pcFn = "residual"
    /\ fnOut' = [fnOut EXCEPT !.prod = compute_residual(m, bc, fnOut.aux, @)]
    /\ pcFn' = "difference"
    /\ UNCHANGED fnIn
    /\ UNCHANGED <<resVars, jacVars, bsVars, ctorVars, drvVars, startVars>>

\* lines 142-144: prod = (prod - resu) / (eps/vnorm)
JacVecDifference ==
    /\ pcFn = "difference"
    /\ fnOut' = [fnOut EXCEPT !.prod =
                   [iel \in Cells(m) |-> [i \in Vars |->
                      (@[iel][i] - fnIn.resu[iel][i])
                         \div Perturbation(fnIn.v)]]]
    /\ pcFn' = "timeterm"
    /\ UNCHANGED fnIn
    /\ UNCHANGED <<resVars, jacVars, bsVars, ctorVars, drvVars, startVars>>

\* lines 147-152: prod(iel,ivar) += garea(iel)/dtm(iel)*v(iel,ivar) when
\* add_time_deriv is set
JacVecTimeTerm ==
    /\ pcFn = "timeterm"
    /\ fnOut' = IF fnIn.add_time_deriv
                THEN [fnOut EXCEPT !.prod =
                        [iel \in Cells(m) |-> [i \in Vars |->
                           @[iel][i]
                             + ((garea(m, iel) * fnIn.dtm[iel][2])
                                   \div fnIn.dtm[iel][1]) * fnIn.v[iel][i]]]]
                ELSE fnOut
    /\ pcFn' = "done"
    /\ UNCHANGED fnIn
    /\ UNCHANGED <<resVars, jacVars, bsVars, ctorVars, drvVars, startVars>>

JacVecNext ==
    \/ JacVecPerturb
    \/ JacVecResidual
    \/ JacVecDifference
    \/ JacVecTimeTerm

SpecJacVec == JacVecInit /\ [][JacVecNext]_vars

----------------------------------------------------------------------------
(* FlowFV::compute_residual up to the flux loop: the left and right state  *)
(* of every face.  Every state carries its form and the number of times it *)
(* was converted from primitive to conservative variables.  The gradient   *)
(* and limiter classes are not part of the sources at hand:                *)
(* compute_gradients yields gradients in the form of its input, and        *)
(* compute_face_values writes the left state of every face and the right   *)
(* state of every interior face, in the form of its input, here with the   *)
(* value of the adjacent cell.                                             *)

Conserved(v) == [ val |-> v, form |-> "conserved", nconv |-> 0 ]

\* an entry of an array that was resized but not yet written
Unwritten(g) == [ val |-> g, form |-> "unwritten", nconv |-> 0 ]

\* physics.convertConservedToPrimitive: <<rho, vx, vy, p>>
convertConservedToPrimitive(s) ==
    [ val |-> << s.val[1], s.val[2] \div s.val[1], s.val[3] \div s.val[1],
                 getPressureFromConserved(s.val) >>,
      form |-> IF s.form = "conserved" THEN "primitive" ELSE "invalid",
      nconv |-> s.nconv ]

\* physics.convertPrimitiveToConserved: <<rho, rho vx, rho vy, E>>
convertPrimitiveToConserved(s) ==
    [ val |-> << s.val[1], s.val[1] * s.val[2], s.val[1] * s.val[3],
                 s.val[4] + (s.val[1] * (s.val[2] * s.val[2]
                                           + s.val[3] * s.val[3])) \div 2 >>,
      form |-> IF s.form = "primitive" THEN "conserved" ELSE "invalid",
      nconv |-> s.nconv + 1 ]

\* compute_boundary_states(ins, bs) on the boundary faces: the ghost state
\* is computed from ins as a conservative state
BoundaryStates(mesh, cfg, ins, bs) ==
    [f \in DOMAIN bs |->
        IF f \in BFaces(mesh)
        THEN [ val |-> compute_boundary_state(cfg, ggallfa(mesh, f, 3),
                           Normal(mesh, f), ins[f].val, bs[f].val),
               form |-> IF ins[f].form = "conserved" THEN "conserved"
                        ELSE "invalid",
               nconv |-> 0 ]
        ELSE bs[f]]

\* the boundary faces whose left state nothing converts back
BoundaryLeftToConvert_None(mesh) == {}

\* lines 537-539: the boundary faces whose left state is converted back
BoundaryLeftToConvert(mesh) == BFaces(mesh)

\* the right state of an interior face taken from the left cell
RightCell_Left(mesh, ied) == gintfac(mesh, ied, 0)

\* line 555: jelem
RightCell(mesh, ied) == gintfac(mesh, ied, 1)

FaceStatesInit ==
    /\ \E so \in BOOLEAN, rp \in BOOLEAN, uu \in [Cells(MeshTri2) -> StateSet],
          g \in Garbage :
          /\ fnIn = [ secondOrderRequested |-> so, reconstructPrimitive |-> rp,
                      u |-> [iel \in Cells(MeshTri2) |-> Conserved(uu[iel])] ]
          /\ fnOut = [ uleft |-> [f \in Faces(MeshTri2) |-> Unwritten(g)],
                       uright |-> [f \in Faces(MeshTri2) |-> Unwritten(g)],
                       ug |-> [f \in BFaces(MeshTri2) |-> Unwritten(g)],
                       up |-> [iel \in Cells(MeshTri2) |-> Unwritten(g)],
                       grad |-> "unwritten",
                       calls |-> <<>> ]
    /\ pcFn = "entry"
    /\ m = MeshTri2 /\ bc = EulerBC /\ u = <<>>
    /\ residual = <<>> /\ resid0 = <<>> /\ integ = <<>> /\ uleft = <<>>
    /\ uright = <<>> /\ dtm = <<>> /\ gettimesteps = FALSE
    /\ pcRes = "idle" /\ iter = <<>>
    /\ JacIdle /\ BSIdle /\ CtorIdle /\ DrvIdle /\ StartIdle

\* lines 491-498: the cell state is copied to the left side of every
\* boundary face
FSCopyBoundaryLeft ==
    /\ pcFn = "entry"
    /\ fnOut' = [fnOut EXCEPT !.uleft =
                   [f \in Faces(m) |-> IF f \in BFaces(m)
                                       THEN fnIn.u[gintfac(m, f, 0)] ELSE @[f]]]
    /\ pcFn' = IF fnIn.secondOrderRequested THEN "ghostcells" ELSE "firstorder"
    /\ UNCHANGED fnIn
    /\ UNCHANGED <<resVars, jacVars, bsVars, ctorVars, drvVars, startVars>>

\* line 504: compute_boundary_states(uleft, ug)
FSGhostCells ==
    /\ pcFn = "ghostcells"
    /\ fnOut' = [fnOut EXCEPT !.ug = BoundaryStates(m, bc, fnOut.uleft, @)]
    /\ pcFn' = IF fnIn.reconstructPrimitive THEN "toprimitive" ELSE "reconstruct"
    /\ UNCHANGED fnIn
    /\ UNCHANGED <<resVars, jacVars, bsVars, ctorVars, drvVars, startVars>>

\* lines 508-522: ug is converted in place, u is converted into up
FSToPrimitive ==
    /\ pcFn = "toprimitive"
    /\ fnOut' = [fnOut EXCEPT
                   !.ug = [f \in BFaces(m) |-> convertConservedToPrimitive(@[f])],
                   !.up = [iel \in Cells(m) |->
                             convertConservedToPrimitive(fnIn.u[iel])]]
    /\ pcFn' = "reconstruct"
    /\ UNCHANGED fnIn
    /\ UNCHANGED <<resVars, jacVars, bsVars, ctorVars, drvVars, startVars>>

\* lines 525-526 and 544-545: compute_gradients and compute_face_values on
\* up or on u
FSReconstruct ==
    /\ pcFn = "reconstruct"
    /\ LET cells == IF fnIn.reconstructPrimitive THEN fnOut.up ELSE fnIn.u
       IN  fnOut' = [fnOut EXCEPT
              !.grad = cells[0].form,
              !.calls = @ \o <<"compute_gradients", "compute_face_values">>,
              !.uleft = [f \in Faces(m) |->
                           [cells[gintfac(m, f, 0)] EXCEPT !.nconv = 0]],
              !.uright = [f \in Faces(m) |->
                            IF f \in IFaces(m)
                            THEN [cells[gintfac(m, f, 1)] EXCEPT !.nconv = 0]
                            ELSE @[f]]]
    /\ pcFn' = IF fnIn.reconstructPrimitive THEN "toconserved" ELSE "ghoststates"
    /\ UNCHANGED fnIn
    /\ UNCHANGED <<resVars, jacVars, bsVars, ctorVars, drvVars, startVars>>

\* lines 528-540: the face values are converted back, the gradients are not
FSToConserved ==
    /\ pcFn = "toconserved"
    /\ fnOut' = [fnOut EXCEPT
                   !.uleft = [f \in Faces(m) |->
                                IF f \in IFaces(m) \cup BoundaryLeftToConvert(m)
                                THEN convertPrimitiveToConserved(@[f])
                                ELSE @[f]],
                   !.uright = [f \in Faces(m) |->
                                 IF f \in IFaces(m)
                                 THEN convertPrimitiveToConserved(@[f])
                                 ELSE @[f]]]
    /\ pcFn' = "ghoststates"
    /\ UNCHANGED fnIn
    /\ UNCHANGED <<resVars, jacVars, bsVars, ctorVars, drvVars, startVars>>

\* lines 548-565: first order, the face states of the interior faces are
\* the cell states
FSFirstOrder ==
    /\ pcFn = "firstorder"
    /\ fnOut' = [fnOut EXCEPT
                   !.uleft = [f \in Faces(m) |->
                                IF f \in IFaces(m)
                                THEN fnIn.u[gintfac(m, f, 0)] ELSE @[f]],
                   !.uright = [f \in Faces(m) |->
                                 IF f \in IFaces(m)
                                 THEN fnIn.u[RightCell(m, f)] ELSE @[f]]]
    /\ pcFn' = "ghoststates"
    /\ UNCHANGED fnIn
    /\ UNCHANGED <<resVars, jacVars, bsVars, ctorVars, drvVars, startVars>>

\* line 568: compute_boundary_states(uleft, uright); the flux loop follows
FSGhostStates ==
    /\ pcFn = "ghoststates"
    /\ fnOut' = [fnOut EXCEPT !.uright = BoundaryStates(m, bc, fnOut.uleft, @)]
    /\ pcFn' = "flux"
    /\ UNCHANGED fnIn
    /\ UNCHANGED <<resVars, jacVars, bsVars, ctorVars, drvVars, startVars>>

FaceStatesNext ==
    \/ FSCopyBoundaryLeft
    \/ FSGhostCells
    \/ FSToPrimitive
    \/ FSReconstruct
    \/ FSToConserved
    \/ FSFirstOrder
    \/ FSGhostStates

SpecFaceStates == FaceStatesInit /\ [][FaceStatesNext]_vars

----------------------------------------------------------------------------
(* DiffusionMA<1>: residual and Jacobian of the scalar diffusion problem   *)
(* with constant reconstruction (all gradients zero) and a source that     *)
(* does not depend on u.  The mesh is a row of two squares of side 2; rc   *)
(* and rcg hold the centres of the cells and of the ghost cells.  Every    *)
(* quotient by dist is taken last, where it is exact.                      *)

\* largest cell value
MaxU == 2
\* largest magnitude of a component of the direction v
MaxV == 1
\* largest diffusivity
MaxDiff == 2

MeshQuad2 ==
    [ nelem  |-> 2, nbface |-> 6, naface |-> 7,
      intfac |-> << <<0, 2>>, <<1, 3>>, <<1, 4>>, <<1, 5>>, <<0, 6>>,
                    <<0, 7>>, <<0, 1>> >>,
      gallfa |-> << <<0, -1, 2, 2>>, <<0, -1, 2, 2>>, <<1, 0, 2, 2>>,
                    <<0, 1, 2, 2>>, <<0, 1, 2, 2>>, <<-1, 0, 2, 2>>,
                    <<1, 0, 2, 0>> >>,
      area   |-> <<4, 4>>,
      rc     |-> << <<1, 1>>, <<3, 1>> >>,
      rcg    |-> << <<1, -1>>, <<3, -1>>, <<5, 1>>, <<3, 3>>, <<1, 3>>,
                    <<-1, 1>> >> ]

\* lines 922-929: Diffusion::compute_boundary_state
DirichletGhost(bval, ins) == 2 * bval - ins

\* lines 1025-1033 and 1056-1064: dr, dist and sn of a face; the other
\* centre is the right cell's or the ghost cell's
FaceGeometry(mesh, iface) ==
    LET lelem == gintfac(mesh, iface, 0)
        other == IF iface < gnbface(mesh) THEN mesh.rcg[iface + 1]
                 ELSE mesh.rc[gintfac(mesh, iface, 1) + 1]
        dr    == [i \in 1..2 |-> other[i] - mesh.rc[lelem + 1][i]]
        dist  == ISqrt(dr[1] * dr[1] + dr[2] * dr[2])
    IN  [ dist |-> dist,
          sn   |-> (dr[1] * ggallfa(mesh, iface, 0)
                      + dr[2] * ggallfa(mesh, iface, 1)) \div dist,
          len  |-> ggallfa(mesh, iface, 2) ]

\* lines 1042-1050 and 1070-1074: what the faces add to the residual of
\* cell iel; gradterm is zero
DiffFaceTerms(mesh, cfg, uu, iel) ==
    LET term == [iface \in 0..(gnaface(mesh) - 1) |->
            LET g == FaceGeometry(mesh, iface)
                lelem == gintfac(mesh, iface, 0)
                relem == gintfac(mesh, iface, 1)
            IN  IF iface < gnbface(mesh)
                THEN IF lelem = iel
                     THEN -((cfg.diffusivity
                               * (DirichletGhost(cfg.bval, uu[lelem])
                                    - uu[lelem]) * g.sn * g.len) \div g.dist)
                     ELSE 0
                ELSE LET flux == (cfg.diffusivity * (uu[relem] - uu[lelem])
                                    * g.sn * g.len) \div g.dist
                     IN  IF lelem = iel THEN -flux
                         ELSE IF relem = iel THEN flux ELSE 0]
    IN  SumOver(term, 0..(gnaface(mesh) - 1))

\* lines 994-1087: DiffusionMA::compute_residual added to a zero residual
DiffResidual(mesh, cfg, uu) ==
    [iel \in 0..(gnelem(mesh) - 1) |->
        DiffFaceTerms(mesh, cfg, uu, iel) - cfg.source * garea(mesh, iel)]

\* the Dirichlet ghost value 2*bval - u differentiated: factor 2
BoundaryDiag_Doubled(mesh, cfg, iface) ==
    LET g == FaceGeometry(mesh, iface)
    IN  2 * ((cfg.diffusivity * g.sn * g.len) \div g.dist)

\* lines 1140-1160: the block a boundary face adds to the diagonal
BoundaryDiag(mesh, cfg, iface) ==
    LET g == FaceGeometry(mesh, iface)
    IN  (cfg.diffusivity * g.sn * g.len) \div g.dist

\* lines 1098-1135: ll of an interior face, submitted at (relem, lelem)
\* and (lelem, relem); its negation goes to both diagonal blocks
InteriorOffDiag(mesh, cfg, iface) ==
    LET g == FaceGeometry(mesh, iface)
    IN  -((cfg.diffusivity * g.sn * g.len) \div g.dist)

\* lines 1091-1162: DiffusionMA::compute_jacobian on a zero operator
DiffJacobian(mesh, cfg) ==
    [row \in 0..(gnelem(mesh) - 1), col \in 0..(gnelem(mesh) - 1) |->
        LET term == [iface \in 0..(gnaface(mesh) - 1) |->
                LET lelem == gintfac(mesh, iface, 0)
                    relem == gintfac(mesh, iface, 1)
                IN  IF iface < gnbface(mesh)
                    THEN IF row = lelem /\ col = lelem
                         THEN BoundaryDiag(mesh, cfg, iface) ELSE 0
                    ELSE IF row = col /\ row \in {lelem, relem}
                         THEN -InteriorOffDiag(mesh, cfg, iface)
                         ELSE IF <<row, col>> \in {<<relem, lelem>>,
                                                   <<lelem, relem>>}
                              THEN InteriorOffDiag(mesh, cfg, iface)
                              ELSE 0]
        IN  SumOver(term, 0..(gnaface(mesh) - 1))]

\* the product of the assembled operator with v
MatVec(mesh, J, v) ==
    [row \in 0..(gnelem(mesh) - 1) |->
        SumOver([col \in 0..(gnelem(mesh) - 1) |-> J[row, col] * v[col]],
                0..(gnelem(mesh) - 1))]

DiffInit ==
    /\ \E uu \in [0..(MeshQuad2.nelem - 1) -> 0..MaxU],
          v \in [0..(MeshQuad2.nelem - 1) -> (-MaxV)..MaxV],
          d \in 1..MaxDiff, bval \in 0..1, src \in 0..1 :
          fnIn = [ u |-> uu, v |-> v,
                   cfg |-> [diffusivity |-> d, bval |-> bval, source |-> src] ]
    /\ fnOut = <<>>
    /\ pcFn = "call"
    /\ m = MeshQuad2 /\ bc = EulerBC /\ u = <<>>
    /\ residual = <<>> /\ resid0 = <<>> /\ integ = <<>> /\ uleft = <<>>
    /\ uright = <<>> /\ dtm = <<>> /\ gettimesteps = FALSE
    /\ pcRes = "idle" /\ iter = <<>>
    /\ JacIdle /\ BSIdle /\ CtorIdle /\ DrvIdle /\ StartIdle

\* compute_residual at u and at u + v
DiffResiduals ==
    /\ pcFn = "call"
    /\ fnOut' = [ Ru  |-> DiffResidual(m, fnIn.cfg, fnIn.u),
                  Ruv |-> DiffResidual(m, fnIn.cfg,
                              [iel \in DOMAIN fnIn.u |-> fnIn.u[iel] + fnIn.v[iel]]) ]
    /\ pcFn' = "residuals"
    /\ UNCHANGED fnIn
    /\ UNCHANGED <<resVars, jacVars, bsVars, ctorVars, drvVars, startVars>>

\* compute_jacobian at u, and the product of the operator with v
DiffAssemble ==
    /\ pcFn = "residuals"
    /\ LET J == DiffJacobian(m, fnIn.cfg)
       IN  fnOut' = [ Ru |-> fnOut.Ru, Ruv |-> fnOut.Ruv, J |-> J,
                      Jv |-> MatVec(m, J, fnIn.v) ]
    /\ pcFn' = "done"
    /\ UNCHANGED fnIn
    /\ UNCHANGED <<resVars, jacVars, bsVars, ctorVars, drvVars, startVars>>

DiffNext ==
    \/ DiffResiduals
    \/ DiffAssemble

SpecDiffusion == DiffInit /\ [][DiffNext]_vars

----------------------------------------------------------------------------
(* compute_residual and compute_jacobian side by side: one call of either  *)
(* on a mesh of the model                                                  *)

WritesInit == ResInit \/ JacInit

WritesNext == ResNext \/ JacNext

SpecWrites == WritesInit /\ [][WritesNext]_vars

----------------------------------------------------------------------------
(* The KSP solver objects of test_speedup_sweeps and run_sweeps.  A handle *)
(* is the number of an object, 0 is the null handle; run_sweeps receives   *)
(* the handle by value.  KSPDestroy destroys the object of a handle and    *)
(* nulls that handle only.                                                 *)

\* largest length of the sweep sequence
MaxSeqLen == 2

\* the sweep sequences of a run
SweepSeqs ==
    UNION { [1..n -> 1..2] : n \in 0..MaxSeqLen }

\* KSPCreate(PETSC_COMM_WORLD, &ksp): a new object
KSPCreate(objs) == Append(objs, [ destroyed |-> 0, usedAfter |-> 0 ])

\* KSPDestroy(&ksp) on a handle: nothing happens on the null handle
KSPDestroy(objs, h) ==
    IF h = 0 THEN objs
    ELSE [objs EXCEPT ![h].destroyed = @ + 1]

\* KSPSetOperators, KSPSetFromOptions, setup_blasted and the solves: the
\* object of the handle is used
KSPUse(objs, h) ==
    IF h # 0 /\ objs[h].destroyed > 0
    THEN [objs EXCEPT ![h].usedAfter = @ + 1]
    ELSE objs

KspInit ==
    /\ \E seq \in SweepSeqs, us \in BOOLEAN, mf \in BOOLEAN :
          fnIn = [ sweep_seq |-> seq, usestarter |-> us, mf_flg |-> mf ]
    /\ fnOut = [ objs |-> <<>>, ksp |-> 0, arg |-> 0, runs |-> 0 ]
    /\ pcFn = "create"
    /\ m = MeshTri2 /\ bc = EulerBC /\ u = <<>>
    /\ residual = <<>> /\ resid0 = <<>> /\ integ = <<>> /\ uleft = <<>>
    /\ uright = <<>> /\ dtm = <<>> /\ gettimesteps = FALSE
    /\ pcRes = "idle" /\ iter = <<>>
    /\ JacIdle /\ BSIdle /\ CtorIdle /\ DrvIdle /\ StartIdle

\* lines 73-84: KSPCreate, KSPSetOperators, KSPSetFromOptions
KspCreate ==
    /\ pcFn = "create"
    /\ LET objs == KSPCreate(fnOut.objs)
       IN  fnOut' = [fnOut EXCEPT !.objs = KSPUse(objs, Len(objs)),
                                  !.ksp = Len(objs)]
    /\ pcFn' = "starter"
    /\ UNCHANGED fnIn
    /\ UNCHANGED <<resVars, jacVars, bsVars, ctorVars, drvVars, startVars>>

\* lines 102-123: the starter solver is given ksp, setup_blasted uses it and
\* the starter solve runs when it is requested
KspStarter ==
    /\ pcFn = "starter"
    /\ fnOut' = [fnOut EXCEPT !.objs = KSPUse(@, fnOut.ksp)]
    /\ pcFn' = "benchmark"
    /\ UNCHANGED fnIn
    /\ UNCHANGED <<resVars, jacVars, bsVars, ctorVars, drvVars, startVars>>

\* lines 135 and 159: run_sweeps(..., ksp, ...) is called, once for the
\* single-thread run and once for every entry of the sweep sequence
KspRunEnter ==
    /\ pcFn = "benchmark"
    /\ fnOut.runs < 1 + Len(fnIn.sweep_seq)
    /\ fnOut' = [fnOut EXCEPT !.arg = fnOut.ksp]
    /\ pcFn' = "reset"
    /\ UNCHANGED fnIn
    /\ UNCHANGED <<resVars, jacVars, bsVars, ctorVars, drvVars, startVars>>

\* lines 206-207: KSPDestroy(&ksp); KSPCreate(PETSC_COMM_WORLD, &ksp) on
\* the parameter.  Destroying an object that was destroyed before is
\* undefined: the call may go on or end the program.
KspRunReset ==
    /\ pcFn = "reset"
    /\ LET again == fnOut.objs[fnOut.arg].destroyed > 0
           objs  == KSPCreate(KSPDestroy(fnOut.objs, fnOut.arg))
       IN  \/ /\ fnOut' = [fnOut EXCEPT !.objs = objs, !.arg = Len(objs)]
              /\ pcFn' = "solve"
           \/ /\ again
              /\ fnOut' = [fnOut EXCEPT
                             !.objs = KSPDestroy(fnOut.objs, fnOut.arg)]
              /\ pcFn' = "crashed"
    /\ UNCHANGED fnIn
    /\ UNCHANGED <<resVars, jacVars, bsVars, ctorVars, drvVars, startVars>>

\* lines 208-232: KSPSetOperators, KSPSetFromOptions, setup_blasted, the
\* main solver and its solve use the new object
KspRunSolve ==
    /\ pcFn = "solve"
    /\ fnOut' = [fnOut EXCEPT !.objs = KSPUse(@, fnOut.arg)]
    /\ pcFn' = "runreturn"
    /\ UNCHANGED fnIn
    /\ UNCHANGED <<resVars, jacVars, bsVars, ctorVars, drvVars, startVars>>

\* lines 235-238: run_sweeps returns; its parameter goes out of scope
KspRunReturn ==
    /\ pcFn = "runreturn"
    /\ fnOut' = [fnOut EXCEPT !.arg = 0, !.runs = @ + 1]
    /\ pcFn' = "benchmark"
    /\ UNCHANGED fnIn
    /\ UNCHANGED <<resVars, jacVars, bsVars, ctorVars, drvVars, startVars>>

\* lines 170-182: KSPDestroy(&ksp) in test_speedup_sweeps, which returns
KspDestroyReturn ==
    /\ pcFn = "benchmark"
    /\ fnOut.runs = 1 + Len(fnIn.sweep_seq)
    /\ fnOut' = [fnOut EXCEPT !.objs = KSPDestroy(@, fnOut.ksp), !.ksp = 0]
    /\ pcFn' = "returned"
    /\ UNCHANGED fnIn
    /\ UNCHANGED <<resVars, jacVars, bsVars, ctorVars, drvVars, startVars>>

KspNext ==
    \/ KspCreate
    \/ KspStarter
    \/ KspRunEnter
    \/ KspRunReset
    \/ KspRunSolve
    \/ KspRunReturn
    \/ KspDestroyReturn

SpecKsp == KspInit /\ [][KspNext]_vars

----------------------------------------------------------------------------
(* Properties of compute_residual *)

LoopDone == pcRes \in {"fluxloop", "done"} /\ \A f \in Faces(m) : iter[f] = IterDone

\* the part of face ied's flux that the face has already added to component
\* ivar of cell iel, given the position of its iteration
Applied(ied, iel, ivar) ==
    LET fl == FaceFlux(m, uleft, uright, ied)[ivar]
    IN  (IF gintfac(m, ied, 0) = iel /\ iter[ied] > ivar THEN fl ELSE 0)
        - (IF gintfac(m, ied, 1) = iel /\ iter[ied] > NVARS + ivar THEN fl ELSE 0)

AppliedInteg(ied, iel) ==
    (IF gintfac(m, ied, 0) = iel /\ iter[ied] > AtIntegLeft
        THEN WaveIntegral(m, uleft, ied) ELSE 0)
    + (IF gintfac(m, ied, 1) = iel /\ iter[ied] > AtIntegRight
        THEN WaveIntegral(m, uright, ied) ELSE 0)

RECURSIVE SerialResidual(_, _)
\* the residual after the faces 0..n-1 were processed one after the other,
\* in index order, starting from res
SerialResidual(res, n) ==
    IF n = 0 THEN res
    ELSE LET before == SerialResidual(res, n - 1)
             ied    == n - 1
             lelem  == gintfac(m, ied, 0)
             relem  == gintfac(m, ied, 1)
             fl     == FaceFlux(m, uleft, uright, ied)
             left   == [before EXCEPT ![lelem] = [i \in Vars |-> @[i] + fl[i]]]
         IN  IF relem < gnelem(m)
             THEN [left EXCEPT ![relem] = [i \in Vars |-> @[i] - fl[i]]]
             ELSE left

RECURSIVE SerialInteg(_, _)
SerialInteg(w, n) ==
    IF n = 0 THEN w
    ELSE LET before == SerialInteg(w, n - 1)
             ied    == n - 1
             lelem  == gintfac(m, ied, 0)
             relem  == gintfac(m, ied, 1)
             left   == [before EXCEPT ![lelem] = @ + WaveIntegral(m, uleft, ied)]
         IN  IF relem < gnelem(m)
             THEN [left EXCEPT ![relem] = @ + WaveIntegral(m, uright, ied)]
             ELSE left

ZeroResidual == [iel \in Cells(m) |-> ZeroVec]

\* C1: when the flux loop has finished, the sum over all cells of what
\* compute_residual added to the residual equals the sum of len*F over the
\* boundary faces alone, in every component (the two contributions of every
\* interior face cancel); starting from a zero residual, the sum of the
\* residual itself equals the boundary sum.
C1_InteriorFluxesCancel ==
    LoopDone =>
      \A ivar \in Vars :
         SumOver([iel \in Cells(m) |-> residual[iel][ivar] - resid0[iel][ivar]],
                 Cells(m))
           = SumOver([f \in BFaces(m) |-> FaceFlux(m, uleft, uright, f)[ivar]],
                     BFaces(m))

\* C1 witness: a finished loop that started from a zero residual, with a
\* nonzero flux through the interior face and a nonzero boundary sum
C1_Witness ==
    /\ LoopDone
    /\ resid0 = ZeroResidual
    /\ \E f \in IFaces(m) : FaceFlux(m, uleft, uright, f)[1] # 0
    /\ SumOver([iel \in Cells(m) |-> residual[iel][1]], Cells(m)) # 0

\* C2 (as claimed): the residual returned by compute_residual is the one
\* determined by the state u alone, whatever the residual array held on entry.
C2_ResidualIndependentOfPrior ==
    pcRes = "done" => residual = SerialResidual(ZeroResidual, gnaface(m))

\* C3: at every moment of the parallel flux loop, every residual entry and
\* every wave integral holds its value at loop entry plus exactly the
\* contributions of the atomic updates made so far, each once; when the loop
\* has finished they equal the values obtained by processing the faces one
\* after the other in index order.
C3_ScheduleIndependent ==
    /\ pcRes \in {"fluxloop", "done"} =>
         \A iel \in Cells(m) :
            /\ \A ivar \in Vars :
                  residual[iel][ivar] = resid0[iel][ivar]
                     + SumOver([f \in Faces(m) |-> Applied(f, iel, ivar)], Faces(m))
            /\ integ[iel] = SumOver([f \in Faces(m) |-> AppliedInteg(f, iel)],
                                    Faces(m))
    /\ LoopDone =>
         /\ residual = SerialResidual(resid0, gnaface(m))
         /\ integ = SerialInteg([iel \in Cells(m) |-> 0], gnaface(m))

\* C3 witness: two iterations run at the same time, both have already
\* updated the residual of the same cell, and neither has finished
C3_Witness ==
    /\ pcRes = "fluxloop"
    /\ \E f, g \in Running(iter) :
          /\ f # g
          /\ gintfac(m, f, 0) = gintfac(m, g, 0)
          /\ iter[f] \in 2..NVARS
          /\ iter[g] \in 2..NVARS
          /\ FaceFlux(m, uleft, uright, f)[1] # 0
          /\ FaceFlux(m, uleft, uright, g)[1] # 0

(* C16: when time steps are requested, the time step of every cell is its  *)
(* area divided by its wave integral, and a finite number even for a cell  *)
(* whose wave integral is zero.                                            *)
C16_TimeStepFinite ==
    pcRes = "done" =>
        \A iel \in Cells(m) :
            /\ dtm[iel][2] # 0
            /\ integ[iel] # 0 => dtm[iel] = <<garea(m, iel), integ[iel]>>

(* C20: with uinf in every cell of a mesh of closed cells whose boundary   *)
(* faces are all far-field faces, compute_residual returns a residual that *)
(* is zero in every cell and component.                                    *)
C20_FreeStreamPreserved ==
    (pcRes = "done" /\ \A iel \in Cells(m) : u[iel] = uinf
       /\ \A f \in BFaces(m) : ggallfa(m, f, 3) = bc.inflow_outflow_id)
    => \A iel \in Cells(m) : \A i \in Vars : residual[iel][i] = 0

----------------------------------------------------------------------------
(* Properties of compute_jacobian *)

RECURSIVE BlockSum(_, _)
\* sum of the blocks f[x] over the finite set S
BlockSum(f, S) ==
    IF S = {} THEN ZeroBlock
    ELSE LET x == CHOOSE y \in S : TRUE
         IN  BlockAdd(f[x], BlockSum(f, S \ {x}))

\* the ghost state of boundary face f
GhostOf(f) ==
    compute_boundary_state(bc, ggallfa(m, f, 3), Normal(m, f),
                           u[gintfac(m, f, 0)], uinf)

\* the flux Jacobians of face f at its two states
JacobianOf(f) ==
    get_jacobian(u[gintfac(m, f, 0)],
                 IF f \in BFaces(m) THEN GhostOf(f) ELSE u[gintfac(m, f, 1)],
                 Normal(m, f))

\* what face f contributes to the diagonal block of cell iel
FaceContribution(f, iel) ==
    LET len == ggallfa(m, f, 2)
        l   == IF gintfac(m, f, 0) = iel
               THEN BlockScale(-len, JacobianOf(f).left) ELSE ZeroBlock
        r   == IF f \in IFaces(m) /\ gintfac(m, f, 1) = iel
               THEN BlockScale(-len, JacobianOf(f).right) ELSE ZeroBlock
    IN  BlockAdd(l, r)

\* the part of FaceContribution(f, iel) that f has added so far
AppliedContribution(f, iel) ==
    LET len == ggallfa(m, f, 2)
        l   == IF gintfac(m, f, 0) = iel
                  /\ jiter[f] \in (IF f \in BFaces(m) THEN {"done"}
                                                      ELSE {"diagR", "done"})
               THEN BlockScale(-len, JacobianOf(f).left) ELSE ZeroBlock
        r   == IF f \in IFaces(m) /\ gintfac(m, f, 1) = iel /\ jiter[f] = "done"
               THEN BlockScale(-len, JacobianOf(f).right) ELSE ZeroBlock
    IN  BlockAdd(l, r)

\* C4: at every moment of the two parallel loops of compute_jacobian, every
\* diagonal block holds its value before assembly plus the contributions of
\* the updates made so far, each once; when assembly has finished, it holds
\* its value before assembly plus the sum of the contributions of all the
\* faces adjacent to the cell, whatever the interleaving of the updates.
C4_NoLostDiagonalUpdate ==
    \A iel \in Cells(m) :
       /\ A.D[iel] = BlockAdd(D0[iel],
             BlockSum([f \in Faces(m) |-> AppliedContribution(f, iel)], Faces(m)))
       /\ pcJac = "done" =>
             A.D[iel] = BlockAdd(D0[iel],
               BlockSum([f \in Faces(m) |-> FaceContribution(f, iel)], Faces(m)))

\* C4 witness: two interior faces adjacent to the same cell are in progress
\* at the same time; one has made its update of that cell's diagonal block,
\* the update of the other is still to come, and both are nonzero
C4_Witness ==
    /\ pcJac = "ifaces"
    /\ \E f, g \in IFaces(m) :
          /\ f # g
          /\ gintfac(m, g, 0) = gintfac(m, f, 1)
          /\ jiter[g] = "diagR"
          /\ jiter[f] \in {"submitL", "submitU", "diagL", "diagR"}
          /\ FaceContribution(g, gintfac(m, g, 0)) # ZeroBlock
          /\ FaceContribution(f, gintfac(m, f, 1)) # ZeroBlock

SubmitCalls == { c \in calls : c.op = "submitBlock" }

\* C5: an interior face submits nothing before its first submission, then the
\* lower block at (row relem, column lelem), then the upper block at (row
\* lelem, column relem), and nothing more; with A.type()=='d' the arguments
\* are (1, iface-N_bface) and (2, iface-N_bface), otherwise (NVARS, NVARS);
\* the interior-face index lies in [0, N_face-N_bface); no slot is written
\* by two different faces, and each slot holds the block submitted to it.
C5_InteriorSubmissions ==
    /\ \A f \in IFaces(m) :
          LET lelem == gintfac(m, f, 0)
              relem == gintfac(m, f, 1)
              len   == ggallfa(m, f, 2)
              isd   == A.type = "d"
              lower == Call(f, "submitL", "submitBlock", relem * NVARS,
                            lelem * NVARS, BlockScale(len, JacobianOf(f).left),
                            IF isd THEN 1 ELSE NVARS,
                            IF isd THEN f - gnbface(m) ELSE NVARS)
              upper == Call(f, "submitU", "submitBlock", lelem * NVARS,
                            relem * NVARS, BlockScale(len, JacobianOf(f).right),
                            IF isd THEN 2 ELSE NVARS,
                            IF isd THEN f - gnbface(m) ELSE NVARS)
              mine  == { c \in SubmitCalls : c.face = f }
          IN  /\ jiter[f] \in {"todo", "submitL"} => mine = {}
              /\ jiter[f] = "submitU" => mine = {lower}
              /\ jiter[f] \in {"diagL", "diagR", "done"} => mine = {lower, upper}
    /\ \A c \in SubmitCalls :
          /\ c.face \in IFaces(m)
          /\ A.type = "d" =>
                /\ c.arg1 \in {1, 2}
                /\ c.arg2 >= 0
                /\ c.arg2 < gnaface(m) - gnbface(m)
          /\ LET slot == Slot(A, c.row, c.col, c.arg1, c.arg2)
             IN  /\ slot \in DOMAIN A.off
                 /\ A.off[slot] = c.block
                 /\ \A d \in SubmitCalls :
                       Slot(A, d.row, d.col, d.arg1, d.arg2) = slot => d = c
    /\ Cardinality(DOMAIN A.off) = Cardinality(SubmitCalls)

\* C5 witness: an assembly on the face-indexed form that has finished on a
\* mesh with two interior faces, all four slots written
C5_Witness ==
    /\ pcJac = "done"
    /\ A.type = "d"
    /\ Cardinality(IFaces(m)) = 2
    /\ DOMAIN A.off = {1, 2} \X {0, 1}

\* C6: a boundary face makes no call on the operator before its update and
\* exactly one afterwards, an updateDiagBlock on the row of its left cell;
\* during the boundary loop no off-diagonal block exists, and every diagonal
\* block differs from its value before assembly by exactly the blocks of the
\* finished boundary faces whose left cell it belongs to.
C6_BoundaryFaceFrame ==
    /\ \A f \in BFaces(m) :
          LET mine == { c \in calls : c.face = f }
          IN  /\ jiter[f] # "done" => mine = {}
              /\ jiter[f] = "done" =>
                    /\ Cardinality(mine) = 1
                    /\ \A c \in mine :
                          /\ c.op = "updateDiagBlock"
                          /\ c.row = gintfac(m, f, 0) * NVARS
    /\ pcJac = "bfaces" =>
          /\ A.off = <<>>
          /\ \A iel \in Cells(m) :
                LET mine == { c \in calls : gintfac(m, c.face, 0) = iel }
                IN  A.D[iel] = BlockAdd(D0[iel],
                                 BlockSum([c \in mine |-> c.block], mine))

\* C6 witness: the boundary loop has finished on the three-cell mesh, whose
\* middle cell has a single boundary face, and that face changed its block
C6_Witness ==
    /\ pcJac = "bfaces"
    /\ gnelem(m) = 3
    /\ \A f \in BFaces(m) : jiter[f] = "done"
    /\ A.D[1] # D0[1]
    /\ Cardinality(calls) = gnbface(m)

\* C7 (amended): for a boundary face the flux Jacobian is evaluated at
\* (u_L, u_g), u_g being the ghost state of the face, and the block added to
\* the diagonal block of the left cell is -len times the left Jacobian alone;
\* the right Jacobian, with respect to u_g, is not part of it.
C7_BoundaryLeftJacobianOnly ==
    \A c \in calls :
       c.face \in BFaces(m) =>
          /\ uface[c.face] = GhostOf(c.face)
          /\ c.block = BlockScale(-ggallfa(m, c.face, 2),
                get_jacobian(u[gintfac(m, c.face, 0)], uface[c.face],
                             Normal(m, c.face)).left)

\* C7 witness: a boundary face has made its update, its ghost state differs
\* from the interior state and its right Jacobian is not zero
C7_Witness ==
    \E c \in calls :
       /\ c.face \in BFaces(m)
       /\ uface[c.face] # u[gintfac(m, c.face, 0)]
       /\ JacobianOf(c.face).right # ZeroBlock
       /\ c.block = BlockScale(-ggallfa(m, c.face, 2), JacobianOf(c.face).left)

\* C7 (as claimed): the block a boundary face adds to the diagonal block of
\* its left cell contains the right Jacobian, with respect to the ghost
\* state, together with the left Jacobian.
C7_GhostContributionFolded ==
    \A c \in calls :
       c.face \in BFaces(m) =>
          c.block = BlockScale(-ggallfa(m, c.face, 2),
                      BlockAdd(JacobianOf(c.face).left, JacobianOf(c.face).right))

----------------------------------------------------------------------------
(* Properties of the boundary closure *)

\* C8 (as claimed): when compute_boundary_states has returned, every
\* boundary face whose marker is one of the configured boundary kinds (slip
\* wall, adiabatic wall, isothermal wall, isothermal-pressure wall,
\* far-field) has had all NVARS components of its ghost state written.
C8_GhostStateWritten ==
    pcBS = "done" =>
       \A f \in BFaces(m) :
          ggallfa(m, f, 3) \in ConfiguredMarkers(bc) => written[f] = Vars

\* momentum of a state along the direction d
Along(uc, d) == uc[2] * d[1] + uc[3] * d[2]

\* C11: on a slip wall the ghost state keeps the density and the total
\* energy of the interior state, and its momentum is the interior momentum
\* minus twice its normal component times the normal; so the normal momentum
\* is negated, the tangential momentum is kept, and the rule applied to the
\* ghost state gives the interior state back.
C11_SlipWallReflection ==
    (pcFn \in {"again", "done"} /\ fnIn.marker = fnIn.cfg.slip_wall_id) =>
       LET ins == fnIn.ins
           n   == fnIn.n
           gh  == fnOut[1]
       IN  /\ gh[1] = ins[1]
           /\ gh[4] = ins[4]
           /\ 25 * (ins[2] - gh[2]) = 2 * Along(ins, n) * n[1]
           /\ 25 * (ins[3] - gh[3]) = 2 * Along(ins, n) * n[2]
           /\ Along(gh, n) = -Along(ins, n)
           /\ Along(gh, <<-n[2], n[1]>>) = Along(ins, <<-n[2], n[1]>>)
           /\ pcFn = "done" => fnOut[2] = ins

\* C11 witness: the rule was applied twice on an oblique wall to a state
\* with normal and tangential momentum, and the ghost state differs from it
C11_Witness ==
    /\ pcFn = "done"
    /\ fnIn.marker = fnIn.cfg.slip_wall_id
    /\ fnIn.n = <<4, 3>>
    /\ Along(fnIn.ins, fnIn.n) # 0
    /\ Along(fnIn.ins, <<-3, 4>>) # 0
    /\ fnOut[1] # fnIn.ins
    /\ fnOut[2] = fnIn.ins

C19_GhostCentreSymmetry ==
    pcFn = "done" =>
        \A idim \in Dims :
            fnOut[1][idim] + fnIn.rc[idim] = fnIn.p1[idim] + fnIn.p2[idim]

\* a ghost centre has been computed for a cell centre that lies off the
\* midpoint of the face in both coordinates
C19_Witness ==
    /\ pcFn = "done"
    /\ \A idim \in Dims :
          /\ 2 * fnIn.rc[idim] # fnIn.p1[idim] + fnIn.p2[idim]
          /\ fnOut[1][idim] # fnIn.rc[idim]

----------------------------------------------------------------------------
(* Properties of the configuration *)

\* C9 (as claimed): once the FlowFV object is constructed from a control
\* file whose Jacobian flux is "consistent", its flux object for the
\* Jacobian is of the same variant as its flux object for the residual, and
\* it is set whenever the flux of the residual names a flux the program has.
C9_ConsistentJacobianFlux ==
    pcMain \in {"solve", "returned", "crashed"} /\ opts.invfluxjac = "consistent" =>
       /\ prob.jflux = prob.inviflux
       /\ opts.invflux \in FluxNames => prob.jflux \in FluxNames

\* an option of the control file that the program does not know
UnknownOption ==
    \/ opts.invflux \notin FluxNames
    \/ opts.invfluxjac \notin FluxNames \cup { "consistent" }
    \/ opts.limiter \notin LimiterNames

\* C10 (as claimed): construction never completes with an unset flux,
\* Jacobian flux or limiter, and after a control file with an unknown value
\* of the inviscid flux, the Jacobian flux or the limiter no residual and no
\* Jacobian is ever computed.
C10_UnknownOptionFatal ==
    pcMain \in {"solve", "returned", "crashed"} =>
       /\ opts.invflux \notin FluxNames => prob.inviflux # Unset
       /\ opts.invfluxjac \notin FluxNames \cup { "consistent" } =>
             prob.jflux # Unset
       /\ opts.limiter \notin LimiterNames => prob.lim # Unset
       /\ UnknownOption => nres = 0 /\ njac = 0

\* the name in capital letters
UpperCase(name) ==
    CASE name = "hllc" -> "HLLC"
      [] name = "Roe" -> "ROE"
      [] OTHER -> name

(* C22: whatever the capitalisation of the inviscid-flux name in the       *)
(* control file, the spatial discretization is built with the flux variant *)
(* of that name.                                                           *)
C22_FluxNameAnyCase ==
    (pcMain \in {"solve", "returned", "crashed"}
       /\ UpperCase(opts.invflux) \in FluxNames)
    => prob.inviflux = UpperCase(opts.invflux)

----------------------------------------------------------------------------
(* Properties of the pseudo-time driver *)

\* the starter solve is behind the driver
PastStarter == stage \in {"Benchmarking", "MainRunning", "Done"}

(* C13: the starter solve runs if and only if a starter is configured; no  *)
(* main solve begins before the starter solve has returned; and every main *)
(* solve starts from the vector the starter solve left.                    *)
C13_StarterThenMain ==
    /\ stage = "StarterRunning" => tconf.usestarter # 0
    /\ PastStarter => (ret.starter.status # "none" <=> tconf.usestarter # 0)
    /\ (stage = "MainRunning" /\ step = 0 /\ tconf.usestarter # 0)
          => ut = ret.starter.u /\ initres = ret.starter.u

\* the second main solve begins, after a starter solve that used up its two
\* steps and a first main solve that ended on another vector
C13_Witness ==
    /\ stage = "MainRunning" /\ step = 0
    /\ tconf.usestarter # 0
    /\ ret.starter.status = "not_converged" /\ ret.starter.steps = 2
    /\ ret.main.status # "none" /\ ret.main.u # ret.starter.u
    /\ ut = ret.starter.u

(* C29: every run_sweeps call begins its main solve on a fresh copy of u   *)
(* and no copy is left when it has returned; once the starter stage is     *)
(* over no step of any run_sweeps call changes u, so that every run starts *)
(* from the same vector.                                                   *)
C29_MainSolveOnCopy ==
    /\ []((stage = "MainRunning" /\ step = 0) => (ut = usol /\ initres = usol))
    /\ [](stage \in {"Benchmarking", "Done"} => ut = 0)
    /\ [][(stage \in {"Benchmarking", "MainRunning"}) => (usol' = usol)]_vars

\* the second main solve begins without a starter, on the vector the first
\* one began on, after the first one ended on another vector
C29_Witness ==
    /\ stage = "MainRunning" /\ step = 0
    /\ tconf.usestarter = 0
    /\ ret.main.status # "none" /\ ret.main.steps > 0
    /\ ret.main.u # usol
    /\ ut = usol

\* the configuration of the named stage
ConfOf(s) == IF s = "starter" THEN tconf.start ELSE tconf.main

(* C14: a solve never takes more than max_timesteps steps and every solve  *)
(* is left eventually; a solve that has used up max_timesteps without      *)
(* reaching the tolerance returns its current vector with the status       *)
(* not_converged, and the driver goes on.                                  *)
C14_StagesStop ==
    /\ [](stage = "StarterRunning" => step <= tconf.start.maxiter)
    /\ [](stage = "MainRunning" => step <= tconf.main.maxiter)
    /\ (stage = "StarterRunning") ~> (stage # "StarterRunning")
    /\ (stage = "MainRunning") ~> (stage # "MainRunning")
    /\ [][ /\ stage = "StarterRunning" /\ step = tconf.start.maxiter
           /\ ~(usol * tconf.start.invtol < initres)
           => /\ stage' = "Benchmarking"
              /\ ret'.starter = [ status |-> "not_converged",
                                  steps |-> tconf.start.maxiter, u |-> usol ]
              /\ usol' = usol ]_vars
    /\ [][ /\ stage = "MainRunning" /\ step = tconf.main.maxiter
           /\ ~(ut * tconf.main.invtol < initres)
           => /\ stage' = "Benchmarking"
              /\ ret'.main = [ status |-> "not_converged",
                               steps |-> tconf.main.maxiter, u |-> ut ] ]_vars

\* the driver has returned after a main solve that used up its two steps
\* without reaching the tolerance
C14_Witness ==
    /\ stage = "Done"
    /\ tconf.main.maxiter = 2
    /\ ret.main.status = "not_converged" /\ ret.main.steps = 2
    /\ ret.main.u # 0

\* the configuration of the solve that is running
RunningConf == IF stage = "StarterRunning" THEN tconf.start ELSE tconf.main

(* C15: the CFL number of step k is cfl_min before ramp_start, cfl_max     *)
(* from ramp_end on and the linear interpolation in between; with          *)
(* cfl_min <= cfl_max and ramp_start <= ramp_end it lies between cfl_min   *)
(* and cfl_max and does not decrease from one step to the next.            *)
C15_CFLRamp ==
    /\ [] ( (stage \in {"StarterRunning", "MainRunning"} /\ step >= 1) =>
            LET conf == RunningConf
                k == step - 1
            IN  /\ k < conf.rampstart => curCFL = <<conf.cflinit, 1>>
                /\ (k >= conf.rampstart /\ k >= conf.rampend)
                      => curCFL = <<conf.cflfin, 1>>
                /\ (k >= conf.rampstart /\ k < conf.rampend)
                      => curCFL[1] * (conf.rampend - conf.rampstart)
                            = curCFL[2] * ( conf.cflinit * (conf.rampend - k)
                                + conf.cflfin * (k - conf.rampstart) )
                /\ (conf.cflinit <= conf.cflfin
                    /\ conf.rampstart <= conf.rampend)
                      => /\ Leq(<<conf.cflinit, 1>>, curCFL)
                         /\ Leq(curCFL, <<conf.cflfin, 1>>) )
    /\ [][ ( /\ stage \in {"StarterRunning", "MainRunning"}
             /\ stage' = stage /\ step >= 1 /\ step' = step + 1
             /\ RunningConf.cflinit <= RunningConf.cflfin
             /\ RunningConf.rampstart <= RunningConf.rampend )
           => Leq(curCFL, curCFL') ]_vars

\* the second step of a main solve is taken in the middle of the ramp, with
\* a CFL number strictly between cfl_min and cfl_max
C15_Witness ==
    /\ stage = "MainRunning" /\ step = 2
    /\ tconf.main.rampstart = 0 /\ tconf.main.rampend = 2
    /\ curCFL = <<1250, 2>>

----------------------------------------------------------------------------
(* Properties of the start-up *)

(* C17: with the sentinel as mesh-file entry the mesh is read from         *)
(* argv[2]; with the sentinel and no argv[2] no mesh is read at all.       *)
C17_SentinelNeedsArgument ==
    (args.argc >= 2 /\ args.ctrlOpens /\ args.ctrlMesh = Sentinel) =>
        /\ \A i \in 1..Len(meshReads) :
              args.argc >= 3 /\ meshReads[i] = args.argv2
        /\ (args.argc < 3 /\ pcStart = "exited") => exitStatus # 0

(* C18: without a control file (no argument, or a file that cannot be      *)
(* opened) the process ends with a nonzero status, no mesh read and no     *)
(* solve; the process ends with status 0 only after the solve.             *)
C18_NoControlFileFatal ==
    /\ (args.argc < 2 \/ ~args.ctrlOpens) =>
          /\ meshReads = <<>>
          /\ ~solved
          /\ pcStart = "exited" => exitStatus # 0
    /\ (pcStart = "exited" /\ exitStatus = 0) => solved

----------------------------------------------------------------------------
(* Properties of the matrix-free product *)

\* R(x): the residual of the state x
ResidualAt(x) == compute_residual(m, bc, x, [iel \in Cells(m) |-> ZeroVec])

(* C21: compute_jac_vec returns (R(u + h v) - R(u)) / h with h = eps/|v|,  *)
(* plus area/dt times v in each cell exactly when add_time_deriv is set,   *)
(* whatever prod and aux held on entry.                                    *)
C21_JacVecProduct ==
    pcFn = "done" =>
        LET h == Eps \div VecNorm(m, fnIn.v)
            pert == [iel \in Cells(m) |-> [i \in Vars |->
                       fnIn.u[iel][i] + h * fnIn.v[iel][i]]]
        IN  \A iel \in Cells(m) : \A i \in Vars :
               fnOut.prod[iel][i]
                 = (ResidualAt(pert)[iel][i] - ResidualAt(fnIn.u)[iel][i]) \div h
                   + (IF fnIn.add_time_deriv
                      THEN ((garea(m, iel) * fnIn.dtm[iel][2])
                               \div fnIn.dtm[iel][1]) * fnIn.v[iel][i]
                      ELSE 0)

----------------------------------------------------------------------------
(* Properties of the face states *)

(* C23: without second-order reconstruction no gradient and no limiter     *)
(* operation is invoked and, at flux evaluation, the states of every       *)
(* interior face are the states of its left and right cell, the left state *)
(* of every boundary face is the state of its left cell and its right      *)
(* state is the ghost state computed from that left state.                 *)
C23_FirstOrderFaceStates ==
    ~fnIn.secondOrderRequested =>
        /\ fnOut.calls = <<>>
        /\ pcFn = "flux" =>
             /\ \A f \in IFaces(m) :
                   /\ fnOut.uleft[f] = fnIn.u[gintfac(m, f, 0)]
                   /\ fnOut.uright[f] = fnIn.u[gintfac(m, f, 1)]
             /\ \A f \in BFaces(m) :
                   /\ fnOut.uleft[f] = fnIn.u[gintfac(m, f, 0)]
                   /\ \A g \in Garbage :
                         fnOut.uright[f].val
                           = compute_boundary_state(bc, ggallfa(m, f, 3),
                                 Normal(m, f), fnIn.u[gintfac(m, f, 0)].val, g)

\* the first-order face states are ready for the flux loop on a mesh whose
\* two cells hold different states
C23_Witness ==
    /\ pcFn = "flux" /\ ~fnIn.secondOrderRequested
    /\ fnIn.u[0] # fnIn.u[1]
    /\ \E f \in BFaces(m) : fnOut.uright[f] # fnOut.uleft[f]

(* C24 (as claimed): with primitive reconstruction, at flux evaluation     *)
(* both states of every face are in conservative form, each converted from *)
(* primitive to conservative exactly once, and the gradients are in        *)
(* primitive form.                                                         *)
C24_EveryFaceStateConvertedOnce ==
    (pcFn = "flux" /\ fnIn.secondOrderRequested /\ fnIn.reconstructPrimitive)
    => /\ fnOut.grad = "primitive"
       /\ \A f \in Faces(m) :
             /\ fnOut.uleft[f].form = "conserved" /\ fnOut.uleft[f].nconv = 1
             /\ fnOut.uright[f].form = "conserved" /\ fnOut.uright[f].nconv = 1

(* C24 (amended): with primitive reconstruction, at flux evaluation both   *)
(* states of every face are in conservative form and the gradients are in  *)
(* primitive form; the left state of every face and the right state of     *)
(* every interior face were converted exactly once, the right state of a   *)
(* boundary face is computed from the converted left state and was never   *)
(* converted.                                                              *)
C24_FaceStatesConservative ==
    (pcFn = "flux" /\ fnIn.secondOrderRequested /\ fnIn.reconstructPrimitive)
    => /\ fnOut.grad = "primitive"
       /\ \A f \in Faces(m) :
             /\ fnOut.uleft[f].form = "conserved" /\ fnOut.uleft[f].nconv = 1
             /\ fnOut.uright[f].form = "conserved"
             /\ fnOut.uright[f].nconv = IF f \in IFaces(m) THEN 1 ELSE 0
             /\ fnOut.uleft[f].val = fnIn.u[gintfac(m, f, 0)].val

\* the face states of a primitive reconstruction are ready for the flux
\* loop, on cells whose primitive and conservative states differ
C24_Witness ==
    /\ pcFn = "flux" /\ fnIn.secondOrderRequested /\ fnIn.reconstructPrimitive
    /\ fnOut.calls = <<"compute_gradients", "compute_face_values">>
    /\ \A iel \in Cells(m) : fnOut.up[iel].val # fnIn.u[iel].val

----------------------------------------------------------------------------
(* Properties of the diffusion discretization *)

(* C25: with constant reconstruction the Jacobian assembled by             *)
(* DiffusionMA::compute_jacobian is the derivative of the residual: in     *)
(* every cell, J v = R(u+v) - R(u).                                        *)
C25_DiffusionJacobianExact ==
    pcFn = "done" =>
        \A iel \in DOMAIN fnOut.Jv :
            fnOut.Jv[iel] = fnOut.Ruv[iel] - fnOut.Ru[iel]

----------------------------------------------------------------------------
(* Properties of the write targets *)

\* boundary faces come first and have a ghost slot on the right, interior
\* faces lie between two cells
MeshInvariant(mesh) ==
    /\ \A f \in BFaces(mesh) :
          gintfac(mesh, f, 0) \in Cells(mesh) /\ gintfac(mesh, f, 1) >= gnelem(mesh)
    /\ \A f \in IFaces(mesh) :
          gintfac(mesh, f, 0) \in Cells(mesh) /\ gintfac(mesh, f, 1) \in Cells(mesh)

\* the cell that the update at position pos of iteration ied writes
WriteTarget(mesh, ied, pos) ==
    IF pos \in 1..NVARS \/ pos = AtIntegLeft
    THEN gintfac(mesh, ied, 0) ELSE gintfac(mesh, ied, 1)

(* C26: on a mesh that satisfies the mesh invariant, every write of        *)
(* compute_residual to the residual, the wave integral and the time-step   *)
(* array, and every diagonal-block update of compute_jacobian, targets a   *)
(* cell index in [0, N_cell); no ghost slot is used as an index.           *)
C26_WritesToRealCells ==
    MeshInvariant(m) =>
        /\ pcRes = "fluxloop" =>
              \A f \in Running(iter) : WriteTarget(m, f, iter[f]) \in Cells(m)
        /\ pcRes \in {"fluxloop", "done"} =>
              /\ DOMAIN residual = Cells(m)
              /\ DOMAIN integ = Cells(m)
        /\ (pcRes = "done" /\ gettimesteps) => DOMAIN dtm = Cells(m)
        /\ \A c \in calls :
              c.op = "updateDiagBlock" =>
                 /\ c.row % NVARS = 0
                 /\ c.row \div NVARS \in Cells(m)

\* compute_residual has returned with time steps: every boundary face, whose
\* right slot is a ghost slot, has been through the flux loop
C26_Witness ==
    /\ pcRes = "done" /\ gettimesteps
    /\ MeshInvariant(m)
    /\ \E f \in BFaces(m) : iter[f] = IterDone /\ gintfac(m, f, 1) >= gnelem(m)
    /\ residual # resid0

----------------------------------------------------------------------------
(* Properties of the interior-face blocks *)

\* the calls of interior face f at position pos
CallsAt(f, pos) == { c \in calls : c.face = f /\ c.pos = pos }

\* the blocks that the interior faces put into block column iel: the
\* submitted off-diagonal blocks and the diagonal updates
ColumnCalls(iel) ==
    { c \in calls : c.face \in IFaces(m) /\ c.col = iel * NVARS }

(* C27: for every interior face the block added to the diagonal of the     *)
(* left cell is the negation of the block submitted at (relem, lelem), the *)
(* block added to the diagonal of the right cell is the negation of the    *)
(* block submitted at (lelem, relem); after compute_jacobian the blocks    *)
(* that the interior faces put into any block column sum to zero.          *)
C27_ColumnSumsZero ==
    /\ \A f \in IFaces(m) :
          LET lelem == gintfac(m, f, 0)
              relem == gintfac(m, f, 1)
          IN  /\ \A d \in CallsAt(f, "diagL") :
                    /\ d.op = "updateDiagBlock" /\ d.row = lelem * NVARS
                    /\ \E c \in CallsAt(f, "submitL") :
                          /\ c.row = relem * NVARS /\ c.col = lelem * NVARS
                          /\ d.block = BlockScale(-1, c.block)
              /\ \A d \in CallsAt(f, "diagR") :
                    /\ d.op = "updateDiagBlock" /\ d.row = relem * NVARS
                    /\ \E c \in CallsAt(f, "submitU") :
                          /\ c.row = lelem * NVARS /\ c.col = relem * NVARS
                          /\ d.block = BlockScale(-1, c.block)
              /\ pcJac = "done" =>
                    /\ Cardinality(CallsAt(f, "diagL")) = 1
                    /\ Cardinality(CallsAt(f, "diagR")) = 1
    /\ pcJac = "done" =>
          \A iel \in Cells(m) :
             BlockSum([c \in ColumnCalls(iel) |-> c.block], ColumnCalls(iel))
               = ZeroBlock

\* the assembly has finished on the three-cell mesh: the middle cell's
\* column holds the blocks of two interior faces, none of them zero
C27_Witness ==
    /\ pcJac = "done"
    /\ gnelem(m) = 3
    /\ Cardinality(ColumnCalls(1)) = 4
    /\ \A c \in ColumnCalls(1) : c.block # ZeroBlock

----------------------------------------------------------------------------
(* Properties of the solver objects *)

(* C28: over a whole run of test_speedup_sweeps, no KSP object is          *)
(* destroyed twice or used after it was destroyed, and when the function   *)
(* has returned every KSP object that was created has been destroyed.      *)
C28_KspDestroyedOnce ==
    \A h \in DOMAIN fnOut.objs :
       /\ fnOut.objs[h].destroyed <= 1
       /\ fnOut.objs[h].usedAfter = 0
       /\ pcFn = "returned" => fnOut.objs[h].destroyed = 1

----------------------------------------------------------------------------
(* Properties of the arguments of compute_residual *)

(* C30: a call of compute_residual with gettimesteps = false leaves the    *)
(* time-step array alone, which may be the empty dummy that                *)
(* compute_jac_vec passes, and no step of any call changes the state u.    *)
C30_DummyTimeStepsStateKept ==
    /\ [](~gettimesteps => dtm = <<>>)
    /\ [][u' = u]_vars

\* compute_residual has returned from a call without time steps: the
\* residual has changed, the dummy is still empty
C30_Witness ==
    /\ pcRes = "done" /\ ~gettimesteps
    /\ dtm = <<>>
    /\ residual # resid0
    /\ \A iel \in Cells(m) : integ[iel] > 0

=============================================================================
